---- MODULE Spec2Model ----
(***************************************************************************)
(* PhishScan: the URL canonicalizers, the heuristic rule engines, the feed *)
(* index merge and the signal aggregation with its runtime threshold.      *)
(*                                                                         *)
(* Strings are sequences of one-character strings.  Numbers that the code  *)
(* keeps as floats are kept as integers in fixed units: a signal or a      *)
(* weight is in hundredths (1.0 = 100), a combined score and the threshold *)
(* are in ten-thousandths (1.0 = 10000), so that the product of a weight   *)
(* and a signal is already in the unit of the combined score.              *)
(***************************************************************************)
EXTENDS Integers, Sequences, FiniteSets, TLC

VARIABLES
    PHISHSCAN_THRESHOLD,  \* api.py module global
    env,                  \* process environment: the two weight variables
    resp,                 \* the response of the last request handled
    lastSet,              \* history: value of the last successful threshold write
    bundle,               \* aggregation run: the request and what the collaborators return
    rawUrl,               \* canonicalizer run: the input string
    canon,                \* canonicalizer run: outputs of the three normalizers
    urlA,                 \* rule engine run: first URL
    urlB,                 \* rule engine run: second URL
    reports,              \* rule engine run: the reports of both engines on both URLs
    phishtank_entries,    \* feed build: primary source entries
    openphish_lines,      \* feed build: secondary source lines
    index,                \* feed build: the index built by build_index
    lookup,               \* feed build: result of the last check_threat_feeds
    replies,              \* feed update: what the two feed sources answer
    index_file,           \* feed update: INDEX_FILE on disk
    main_status,          \* feed update: how feed_updater.main ended
    now,                  \* feed cache: time.time()
    cache_file,           \* feed cache: CACHE_FILE on disk, <<>> when missing
    thread,               \* feed cache: the lookups in progress, one per thread
    req,                  \* api: a /predict request in progress, read by read
    page,                 \* html scan: what the scanned site answers
    html                  \* html scan: what the scanner's functions returned

apiVars   == <<PHISHSCAN_THRESHOLD, env, resp, lastSet, bundle>>
canonVars == <<rawUrl, canon>>
heurVars  == <<urlA, urlB, reports>>
feedVars  == <<phishtank_entries, openphish_lines, index, lookup>>
htmlVars  == <<page, html>>
procVars  == <<replies, index_file, main_status, now, cache_file, thread, req,
               htmlVars>>
vars      == <<apiVars, canonVars, heurVars, feedVars, procVars>>

NoResp == [op |-> "none", status |-> 0]
NoBundle == [data |-> [url |-> <<>>]]
NoReports == [p |-> <<>>, a |-> <<>>, s |-> <<>>]
NoLookup == [url |-> <<>>, raised |-> FALSE, found |-> FALSE, feed |-> "", entry |-> <<>>]

\* ------------------------------------------------------------------------
\* Characters and strings
\* ------------------------------------------------------------------------
LowerSeq == <<"a","b","c","d","e","f","g","h","i","j","k","l","m",
              "n","o","p","q","r","s","t","u","v","w","x","y","z">>
UpperSeq == <<"A","B","C","D","E","F","G","H","I","J","K","L","M",
              "N","O","P","Q","R","S","T","U","V","W","X","Y","Z">>
DigitSeq == <<"0","1","2","3","4","5","6","7","8","9">>

Range(f) == {f[i] : i \in DOMAIN f}

Digits == Range(DigitSeq)
Alpha  == Range(LowerSeq) \cup Range(UpperSeq)

\* str.lower() on one character
LowerChar(c) ==
    IF c \in Range(UpperSeq)
    THEN LowerSeq[CHOOSE i \in DOMAIN UpperSeq : UpperSeq[i] = c]
    ELSE c

\* str.lower()
Lower(s) == [i \in DOMAIN s |-> LowerChar(s[i])]

\* s[i:] and s[:i] with 1-based positions: Drop removes the first n
Drop(s, n) == SubSeq(s, n + 1, Len(s))
Take(s, n) == SubSeq(s, 1, n)

\* str.find(c, start): 1-based position of the first c at or after from, 0 if none
Find(s, c, from) ==
    IF \E i \in from..Len(s) : s[i] = c
    THEN CHOOSE i \in from..Len(s) : s[i] = c /\ \A j \in from..(i - 1) : s[j] # c
    ELSE 0

HasChar(s, c) == \E i \in 1..Len(s) : s[i] = c

\* str.count(c)
CountChar(s, c) == Cardinality({i \in 1..Len(s) : s[i] = c})

\* "p in s" for strings
Contains(s, p) ==
    \E i \in 1..(Len(s) - Len(p) + 1) : SubSeq(s, i, i + Len(p) - 1) = p

StartsWith(s, p) == Len(s) >= Len(p) /\ Take(s, Len(p)) = p

\* str.rstrip(c)
RECURSIVE RStrip(_, _)
RStrip(s, c) ==
    IF Len(s) > 0 /\ s[Len(s)] = c THEN RStrip(Take(s, Len(s) - 1), c) ELSE s

\* str.lstrip() for the space character
RECURSIVE LStrip(_)
LStrip(s) ==
    IF Len(s) > 0 /\ s[1] = " " THEN LStrip(Drop(s, 1)) ELSE s

\* str.strip()
Strip(s) == RStrip(LStrip(s), " ")

\* str.split(c)[0] and str.split(c, 1)[1]
BeforeFirst(s, c) == IF HasChar(s, c) THEN Take(s, Find(s, c, 1) - 1) ELSE s
AfterFirst(s, c)  == IF HasChar(s, c) THEN Drop(s, Find(s, c, 1)) ELSE <<>>

\* ------------------------------------------------------------------------
\* urllib.parse.urlparse, as the three normalizers and the engines call it
\* ------------------------------------------------------------------------
HTTP    == <<"h","t","t","p">>
SEP     == <<":","/","/">>
HTTPSEP == HTTP \o SEP

\* urlsplit.  It raises ValueError when the netloc has unbalanced brackets
\* or a bracketed host that is not an IPv6 address (of the bracketed hosts
\* the inputs can spell, urllib accepts "::1" only).
urlsplit(raw) ==
    LET \* the rest after the netloc: fragment, then query, then path
        SplitRest(scheme, netloc, raised, rest) ==
            [raised |-> raised, scheme |-> scheme, netloc |-> netloc,
             path |-> BeforeFirst(BeforeFirst(rest, "#"), "?"),
             query |-> AfterFirst(BeforeFirst(rest, "#"), "?"),
             fragment |-> AfterFirst(rest, "#")]
        NetlocRaises(netloc) ==
            \/ HasChar(netloc, "[") /\ ~HasChar(netloc, "]")
            \/ HasChar(netloc, "]") /\ ~HasChar(netloc, "[")
            \/ /\ HasChar(netloc, "[") /\ HasChar(netloc, "]")
               /\ BeforeFirst(AfterFirst(netloc, "["), "]") # <<":",":","1">>
        \* the netloc ends before position delim
        CutNetloc(scheme, url, delim) ==
            SplitRest(scheme, SubSeq(url, 3, delim - 1),
                      NetlocRaises(SubSeq(url, 3, delim - 1)),
                      Drop(url, delim - 1))
        \* the first of / ? # at or after position 3, given their positions
        FirstOf(ends, url) ==
            IF ends = {} THEN Len(url) + 1
            ELSE CHOOSE m \in ends : \A n \in ends : m <= n
        SplitNetloc(scheme, url) ==
            IF StartsWith(url, <<"/","/">>)
            THEN CutNetloc(scheme, url,
                           FirstOf({Find(url, d, 3) : d \in {"/", "?", "#"}} \ {0},
                                   url))
            ELSE SplitRest(scheme, <<>>, FALSE, url)
        \* i is the position of the first ':'
        SplitScheme(url, i) ==
            IF /\ i > 1
               /\ url[1] \in Alpha
               /\ \A k \in 1..(i - 1) : url[k] \in Alpha \cup Digits \cup {"+", "-", "."}
            THEN SplitNetloc(Lower(Take(url, i - 1)), Drop(url, i))
            ELSE SplitNetloc(<<>>, url)
        FromStripped(url) == SplitScheme(url, Find(url, ":", 1))
    IN  FromStripped(LStrip(raw))

\* urlparse: urlsplit, then _splitparams takes the ;params off the path for
\* the schemes of uses_params (those the inputs can spell)
urlparse(raw) ==
    LET uses_params == {<<>>, HTTP, HTTP \o <<"s">>, <<"f","t","p">>}
        \* semi is the position of the first ';' of the last path segment
        CutParams(r, semi) ==
            IF ~r.raised /\ r.scheme \in uses_params /\ semi # 0
            THEN [r EXCEPT !.path = Take(r.path, semi - 1)]
            ELSE r
        LastSlash(slashes) ==
            IF slashes = {} THEN 1
            ELSE CHOOSE k \in slashes : \A j \in slashes : j <= k
        SplitParams(r) ==
            CutParams(r, Find(r.path, ";",
                              LastSlash({k \in 1..Len(r.path) : r.path[k] = "/"})))
    IN  SplitParams(urlsplit(raw))

\* ------------------------------------------------------------------------
\* The three canonicalizers
\* ------------------------------------------------------------------------
\* url if "://" in url else "http://" + url
WithDefaultScheme(url) == IF Contains(url, SEP) THEN url ELSE HTTPSEP \o url

QueryPart(q) == IF Len(q) > 0 THEN <<"?">> \o q ELSE <<>>

\* f"{scheme}://{netloc}{path}{query}" with the path's trailing slashes removed
Rebuild(scheme, parsed) ==
    scheme \o SEP \o Lower(parsed.netloc) \o RStrip(parsed.path, "/")
    \o QueryPart(parsed.query)

\* feed_updater.normalize_url
fu_normalize_url(raw) ==
    LET Build(url, parsed) ==
            IF parsed.raised THEN Lower(url) ELSE Rebuild(Lower(parsed.scheme), parsed)
        Normalize(url) == Build(url, urlparse(WithDefaultScheme(url)))
    IN  Normalize(Strip(raw))

\* api.normalize_for_storage; Raised stands for the ValueError it lets through
Raised == <<"!raised">>

normalize_for_storage(url) ==
    LET Build(parsed) ==
            IF parsed.raised THEN Raised ELSE Rebuild(Lower(parsed.scheme), parsed)
    IN  Build(urlparse(WithDefaultScheme(url)))

\* app/threat_intel.normalize_url
ti_normalize_url(raw) ==
    LET Build(parsed) ==
            IF parsed.raised THEN Raised
            ELSE Rebuild(IF Len(parsed.scheme) > 0 THEN Lower(parsed.scheme) ELSE HTTP,
                         parsed)
    IN  Build(urlparse(Strip(raw)))

\* ------------------------------------------------------------------------
\* phishscan/app/heuristics.py
\* ------------------------------------------------------------------------
WEIGHT_LONG_URL == 15
WEIGHT_WEIRD_CHARS == 10
WEIGHT_IP_IN_DOMAIN == 20
WEIGHT_MANY_SUBDOMAINS == 10
WEIGHT_SUSPICIOUS_KEYWORD == 15

\* max(lo, min(hi, x))
Clamp(x, lo, hi) == IF x < lo THEN lo ELSE IF x > hi THEN hi ELSE x

\* str.split(c)
RECURSIVE Split(_, _)
Split(s, c) ==
    IF HasChar(s, c)
    THEN <<BeforeFirst(s, c)>> \o Split(AfterFirst(s, c), c)
    ELSE <<s>>

\* str.isdigit(), and \d+ as a full match
IsDigits(s) == Len(s) > 0 /\ \A i \in 1..Len(s) : s[i] \in Digits

KW_LOGIN  == <<"l","o","g","i","n">>
KW_VERIFY == <<"v","e","r","i","f","y">>

keywords ==
    {KW_LOGIN, <<"s","e","c","u","r","e">>, <<"a","c","c","o","u","n","t">>,
     <<"u","p","d","a","t","e">>, KW_VERIFY, <<"b","a","n","k">>}

\* faulty variant: the engine cuts at the runtime threshold
HeuristicCut_runtime == PHISHSCAN_THRESHOLD \div 100

\* the cut of the engine's own verdict
HeuristicCut == 50

\* the tests of analyze_url's rules
RuleFires(rule, url, host) ==
    LET \* the character class [a-zA-Z0-9./:?&=_-]
        plain == Alpha \cup Digits \cup {".", "/", ":", "?", "&", "=", "_", "-"}
        \* re.match(r"^\d+\.\d+\.\d+\.\d+$", ...) given the dot-separated parts
        DottedDigits(parts) ==
            Len(parts) = 4 /\ \A i \in 1..4 : IsDigits(parts[i])
    IN  CASE rule = "long_url" -> Len(url) > 75
          [] rule = "weird_chars" ->
                Cardinality({i \in 1..Len(url) : url[i] \notin plain}) > 5
          [] rule = "ip_in_domain" ->
                DottedDigits(Split(BeforeFirst(host, ":"), "."))
          [] rule = "many_subdomains" -> CountChar(host, ".") >= 3
          [] rule = "suspicious_keyword" ->
                \E k \in keywords : Contains(Lower(url), k)

RuleWeight(rule) ==
    CASE rule = "long_url" -> WEIGHT_LONG_URL
      [] rule = "weird_chars" -> WEIGHT_WEIRD_CHARS
      [] rule = "ip_in_domain" -> WEIGHT_IP_IN_DOMAIN
      [] rule = "many_subdomains" -> WEIGHT_MANY_SUBDOMAINS
      [] rule = "suspicious_keyword" -> WEIGHT_SUSPICIOUS_KEYWORD

\* the rules in the order the code tests them
RuleOrder ==
    <<"long_url", "weird_chars", "ip_in_domain", "many_subdomains",
      "suspicious_keyword">>

RECURSIVE SumWeights(_)
SumWeights(reasons) ==
    IF reasons = <<>> THEN 0
    ELSE RuleWeight(Head(reasons)) + SumWeights(Tail(reasons))

analyze_url(raw) ==
    LET Report(reasons, score) ==
            [raised |-> FALSE, score |-> score,
             final_verdict |-> IF score >= HeuristicCut THEN "phishing"
                               ELSE "legitimate",
             reasons |-> reasons]
        Score(reasons) == Report(reasons, Clamp(SumWeights(reasons), 0, 100))
        Rules(url, host) ==
            Score(SelectSeq(RuleOrder, LAMBDA r : RuleFires(r, url, host)))
        Parsed(url, parsed) ==
            IF parsed.raised THEN [raised |-> TRUE]
            ELSE Rules(url, Lower(parsed.netloc))
        Analyze(url) == Parsed(url, urlparse(WithDefaultScheme(url)))
    IN  Analyze(Strip(raw))

\* ------------------------------------------------------------------------
\* app/heuristics.py
\* ------------------------------------------------------------------------
MAX_LENGTH_SUSPICIOUS == 75
SUSPICIOUS_SUBDOMAIN_DEPTH == 3

SPECIAL_CHAR_THRESHOLDS ==
    [c \in {"-", "_", "@", "?", "=", "%"} |->
        CASE c = "-" -> 4 [] c = "_" -> 4 [] c = "@" -> 1
          [] c = "?" -> 2 [] c = "=" -> 2 [] c = "%" -> 2]

SUSPICIOUS_KEYWORDS ==
    {KW_LOGIN, <<"s","i","g","n","i","n">>, KW_VERIFY,
     <<"u","p","d","a","t","e">>, <<"s","e","c","u","r","e">>,
     <<"a","c","c","o","u","n","t">>, <<"b","a","n","k">>,
     <<"p","a","y","p","a","l">>,
     <<"p","a","s","s","w","o","r","d">>, <<"c","o","n","f","i","r","m">>,
     <<"e","b","a","y">>, <<"a","m","a","z","o","n">>,
     <<"a","p","p","l","e","i","d">>, <<"b","i","l","l","i","n","g">>}

\* url if re.match(r'^[a-zA-Z]+://', url) else "http://" + url
_ensure_scheme(url) ==
    IF \E n \in 1..Len(url) :
           /\ \A i \in 1..n : url[i] \in Alpha
           /\ SubSeq(url, n + 1, n + 3) = SEP
    THEN url
    ELSE HTTPSEP \o url

\* int(p) for a string of digits
RECURSIVE ToInt(_)
ToInt(p) ==
    IF p = <<>> THEN 0
    ELSE 10 * ToInt(Take(p, Len(p) - 1))
         + (CHOOSE i \in DOMAIN DigitSeq : DigitSeq[i] = p[Len(p)]) - 1

_is_ip_domain(netloc) ==
    LET Octets(parts) ==
            /\ Len(parts) = 4
            /\ \A i \in 1..4 : IsDigits(parts[i]) /\ ToInt(parts[i]) <= 255
        NoPort(noCred) == Octets(Split(BeforeFirst(noCred, ":"), "."))
    IN  NoPort(IF HasChar(netloc, "@") THEN AfterFirst(netloc, "@") ELSE netloc)

\* faulty variant: the two parts of domain and TLD are added, not removed
_subdomain_depth_added(host) ==
    LET NonNegative(depth) == IF depth > 0 THEN depth ELSE 0
    IN  NonNegative(Len(Split(RStrip(host, "."), ".")) + 2)

_subdomain_depth(host) ==
    LET NonNegative(depth) == IF depth > 0 THEN depth ELSE 0
    IN  NonNegative(Len(Split(RStrip(host, "."), ".")) - 2)

\* urllib.parse.unquote for the escapes of lowercase letters, %61..%7a:
\* an escape is '%' and two hex digits that spell a lowercase letter
unquote(s) ==
    LET HexSeq == DigitSeq \o <<"a","b","c","d","e","f">>
        IsHex(c) == LowerChar(c) \in Range(HexSeq)
        HexVal(c) == (CHOOSE i \in DOMAIN HexSeq : HexSeq[i] = LowerChar(c)) - 1
        Code(i) == 16 * HexVal(s[i + 1]) + HexVal(s[i + 2])
        EscapeAt(i) ==
            /\ i >= 1 /\ i + 2 <= Len(s)
            /\ s[i] = "%" /\ IsHex(s[i + 1]) /\ IsHex(s[i + 2])
            /\ Code(i) \in 97..122
        \* kept: the positions that are not the hex digits of an escape
        Decode(kept) ==
            [k \in 1..Len(kept) |->
                IF EscapeAt(kept[k]) THEN LowerSeq[Code(kept[k]) - 96]
                ELSE s[kept[k]]]
    IN  Decode(SelectSeq([i \in 1..Len(s) |-> i],
                         LAMBDA i : ~EscapeAt(i - 1) /\ ~EscapeAt(i - 2)))

\* the distinct keywords found, as a set (the code orders them by position)
_find_keywords(s) ==
    LET Found(t) == {kw \in SUSPICIOUS_KEYWORDS : Contains(t, kw)}
    IN  Found(Lower(unquote(s)))

AppWeights ==
    [length |-> 20, special_chars |-> 20, ip_in_domain |-> 25,
     subdomain_depth |-> 15, keywords |-> 20]

\* faulty variant: the keyword weight divided by the number of matches
KwScore_divided(num_kw) ==
    IF num_kw > 0 THEN AppWeights.keywords \div num_kw ELSE 0

\* kw_score = min(weights['keywords'], 10 * num_kw) if num_kw > 0 else 0
KwScore(num_kw) ==
    IF num_kw = 0 THEN 0
    ELSE IF 10 * num_kw < AppWeights.keywords THEN 10 * num_kw
    ELSE AppWeights.keywords

AppVerdict(score) ==
    IF score >= 60 THEN "Likely Phishing"
    ELSE IF score >= 30 THEN "Suspicious - Review"
    ELSE "Likely Safe"

\* the score of a set of per-rule verdicts
AppScore(heur) ==
    Clamp((IF heur.length THEN AppWeights.length ELSE 0)
          + (IF heur.special_chars THEN AppWeights.special_chars ELSE 0)
          + (IF heur.ip_in_domain THEN AppWeights.ip_in_domain ELSE 0)
          + (IF heur.subdomain_depth THEN AppWeights.subdomain_depth ELSE 0)
          + (IF heur.keywords THEN KwScore(Cardinality(heur.found)) ELSE 0),
          0, 100)

app_analyze_url(url) ==
    LET Report(heur, score) ==
            [raised |-> FALSE, heuristics |-> heur, score |-> score,
             final_verdict |-> AppVerdict(score)]
        Score(heur) == Report(heur, AppScore(heur))
        \* full: host, path and query, the text the character and keyword
        \* rules read
        Rules(host, full, found) ==
            Score([length |-> Len(url) > MAX_LENGTH_SUSPICIOUS,
                   special_chars |->
                       \E c \in DOMAIN SPECIAL_CHAR_THRESHOLDS :
                           CountChar(full, c) > SPECIAL_CHAR_THRESHOLDS[c],
                   ip_in_domain |-> _is_ip_domain(host),
                   subdomain_depth |->
                       _subdomain_depth(host) > SUSPICIOUS_SUBDOMAIN_DEPTH,
                   keywords |-> found # {},
                   found |-> found])
        Text(host, full) == Rules(host, full, _find_keywords(full))
        Parsed(parsed) ==
            IF parsed.raised THEN [raised |-> TRUE]
            ELSE Text(parsed.netloc,
                      parsed.netloc \o parsed.path \o QueryPart(parsed.query))
    IN  Parsed(urlparse(_ensure_scheme(url)))

\* ------------------------------------------------------------------------
\* phishscan/app/scanner.py
\* ------------------------------------------------------------------------
One == 10000   \* 1.0 as a combined score or a threshold
Unit == 100    \* 1.0 as a signal or a weight

\* faulty variant: scores up to 10 are taken for the 0..1 scale
HeurRescale_ten(hs) ==
    IF hs <= 10 THEN Clamp(hs, 0, 1) * 100 ELSE Clamp(hs, 0, 100)

\* scan_url's rescaling of the engine's score to 0..100
HeurRescale(hs) ==
    IF hs <= 1 THEN Clamp(hs, 0, 1) * 100 ELSE Clamp(hs, 0, 100)

\* the fixed cut of scan_url's own verdict, 0.6
ScanCut == 6000

\* 0.30*h_norm + 0.15*ssl_risk + 0.15*html_risk + 0.20*ml_prob + 0.20*feed_hit
FiveSignal(h_norm, ssl_risk, html_risk, ml_prob, feed_hit) ==
    30 * h_norm + 15 * ssl_risk + 15 * html_risk + 20 * ml_prob + 20 * feed_hit

\* round(x, 3) of a score kept in ten-thousandths
Round3(x) == ((x + 5) \div 10) * 10

\* extract_features(url): its first step parses the URL and may raise
ExtractRaises(url) == urlparse(WithDefaultScheme(url)).raised

\* sig: what the collaborators return for this URL
\*   ssl_risk   check_ssl(domain)["risk_score"]
\*   feed_found check_threat_feeds(url)["found"]
\*   login_form scan_url_html(url) reports a login form
\*   ml_prob    predict_phishing_prob(features), ml_raises when it raises
scan_url(url, sig) ==
    LET Result(heur, score, final_risk) ==
            [raised |-> FALSE,
             heuristics |-> [score |-> score,
                             final_verdict |-> heur.final_verdict,
                             reasons |-> heur.reasons],
             ssl_risk |-> sig.ssl_risk,
             html_risk |-> IF sig.login_form THEN Unit ELSE 0,
             feed_hit |-> IF sig.feed_found THEN Unit ELSE 0,
             ml_probability |-> sig.ml_prob,
             final_risk |-> final_risk,
             combined_probability |-> Round3(final_risk),
             final_verdict |-> IF final_risk >= ScanCut THEN "phishing"
                               ELSE "legitimate"]
        Combine(heur, score) ==
            Result(heur, score,
                   FiveSignal(score, sig.ssl_risk,
                              IF sig.login_form THEN Unit ELSE 0,
                              sig.ml_prob,
                              IF sig.feed_found THEN Unit ELSE 0))
        Scanned(parsed, heur) ==
            IF parsed.raised \/ heur.raised \/ ExtractRaises(url) \/ sig.ml_raises
            THEN [raised |-> TRUE]
            ELSE Combine(heur, HeurRescale(heur.score))
    IN  Scanned(urlparse(IF StartsWith(url, HTTP) THEN url ELSE HTTPSEP \o url),
                analyze_url(url))

\* ------------------------------------------------------------------------
\* phishscan/api.py
\* ------------------------------------------------------------------------
DEFAULT_WEIGHT_ML == 80
DEFAULT_WEIGHT_H == 20
DEFAULT_THRESHOLD == 4500

\* faulty variant: the score taken as already on the 0..1 scale
HNorm_unscaled(hs) == Clamp(hs * Unit, 0, Unit)

\* predict's normalisation of the heuristic score to 0..1, in hundredths
HNorm(hs) ==
    IF hs > 1 THEN Clamp(hs, 0, Unit) ELSE Clamp(hs * Unit, 0, Unit)

\* faulty variant: the weighted sum without the clamp
TwoSignal_unclamped(w_ml, w_h, prob, h_norm) == w_ml * prob + w_h * h_norm

\* combined = max(0.0, min(1.0, w_ml * prob + w_h * h_norm))
TwoSignal(w_ml, w_h, prob, h_norm) == Clamp(w_ml * prob + w_h * h_norm, 0, One)

\* faulty variant: only the lower end of the range is checked
ThresholdInRange_lower(t) == 0 <= t

\* 0.0 <= t <= 1.0
ThresholdInRange(t) == 0 <= t /\ t <= One

\* /config/threshold.  data is the JSON body of a POST:
\* (config_threshold_stale is the faulty variant whose GET answers with the default)
\*   kind "missing": no body or no 'threshold' key
\*   kind "text":    a value float() rejects
\*   kind "nan":     float('nan')
\*   kind "num":     the number t
\* The result carries the response (threshold is <<>> when the response has
\* no 'threshold' key) and new, the value of the global afterwards.
config_threshold_stale(method, data, current) ==
    IF method = "GET"
    THEN [status |-> 200, threshold |-> <<DEFAULT_THRESHOLD>>, error |-> "",
          new |-> current]
    ELSE IF data.kind = "missing"
    THEN [status |-> 400, threshold |-> <<>>,
          error |-> "missing 'threshold' in JSON body", new |-> current]
    ELSE IF data.kind # "num" \/ ~ThresholdInRange(data.t)
    THEN [status |-> 400, threshold |-> <<>>,
          error |-> "invalid threshold", new |-> current]
    ELSE [status |-> 200, threshold |-> <<data.t>>, error |-> "", new |-> data.t]

config_threshold(method, data, current) ==
    IF method = "GET"
    THEN [status |-> 200, threshold |-> <<current>>, error |-> "", new |-> current]
    ELSE IF data.kind = "missing"
    THEN [status |-> 400, threshold |-> <<>>,
          error |-> "missing 'threshold' in JSON body", new |-> current]
    ELSE IF data.kind # "num" \/ ~ThresholdInRange(data.t)
    THEN [status |-> 400, threshold |-> <<>>,
          error |-> "invalid threshold", new |-> current]
    ELSE [status |-> 200, threshold |-> <<data.t>>, error |-> "", new |-> data.t]

\* the verdict line of predict
Label(combined, threshold) ==
    IF combined >= threshold THEN "phishing" ELSE "legitimate"

\* the weights predict reads from the environment, with the module defaults
WeightMl(e) == IF e.w_ml = <<>> THEN DEFAULT_WEIGHT_ML ELSE e.w_ml[1]
WeightH(e)  == IF e.w_h = <<>> THEN DEFAULT_WEIGHT_H ELSE e.w_h[1]

\* /predict.  data.url is <<>> when the body has no 'url', else <<the string>>;
\* prob is what predict_phishing_prob returns, ml_fails when it raises.
predict(data, prob, ml_fails, sig, e, threshold) ==
    LET Respond(url, h_score, h_norm, combined) ==
            [op |-> "predict", status |-> 200, error |-> "", url |-> url,
             ml_probability |-> prob,
             heuristic_score |-> h_score,
             heuristic_score_normalized |-> h_norm,
             combined_probability |-> combined,
             final_verdict |-> Label(combined, threshold)]
        Combine(url, h_score, h_norm) ==
            Respond(url, h_score, h_norm,
                    IF h_norm # <<>>
                    THEN TwoSignal(WeightMl(e), WeightH(e), prob, h_norm[1])
                    ELSE prob * Unit)
        Normalize(url, h_score) ==
            Combine(url, h_score,
                    IF h_score = <<>> THEN <<>> ELSE <<HNorm(h_score[1])>>)
        \* scanned: what scan_url returned, or that it raised
        Aggregate(url, scanned) ==
            Normalize(url, IF scanned.raised THEN <<>>
                           ELSE <<scanned.heuristics.score>>)
        Handle(url) ==
            IF url = <<>>
            THEN [op |-> "predict", status |-> 400, error |-> "empty url"]
            ELSE IF ExtractRaises(url)
            THEN [op |-> "predict", status |-> 500,
                  error |-> "feature_extraction_failed"]
            ELSE IF ml_fails
            THEN [op |-> "predict", status |-> 500,
                  error |-> "model_prediction_failed"]
            ELSE Aggregate(url, scan_url(url, sig))
    IN  IF data.url = <<>>
        THEN [op |-> "predict", status |-> 400,
              error |-> "missing 'url' in JSON body"]
        ELSE Handle(Strip(data.url[1]))

\* /scan
scan(data, sig) ==
    LET Respond(url, result) ==
            IF result.raised
            THEN [op |-> "scan", status |-> 500, error |-> "scanner_failed"]
            ELSE [op |-> "scan", status |-> 200, error |-> "", url |-> url,
                  normalized_url |-> normalize_for_storage(url),
                  verdict |-> result.heuristics.final_verdict,
                  score |-> result.heuristics.score,
                  result |-> result]
        Handle(url) ==
            IF url = <<>>
            THEN [op |-> "scan", status |-> 400, error |-> "empty url"]
            ELSE Respond(url, scan_url(url, sig))
    IN  IF data.url = <<>>
        THEN [op |-> "scan", status |-> 400,
              error |-> "missing 'url' in JSON body"]
        ELSE Handle(Strip(data.url[1]))

\* ------------------------------------------------------------------------
\* phishscan/feed_updater.py build_index and app/threat_intel.py
\* check_threat_feeds
\* ------------------------------------------------------------------------
\* e.get("url") or e.get("phish_url") or ""
EntryUrl(e) == IF e.url # <<>> THEN e.url ELSE e.phish_url

\* index[k] = v
Put(idx, k, v) == [x \in (DOMAIN idx) \cup {k} |-> IF x = k THEN v ELSE idx[x]]

\* the first loop of build_index, from entry i on
RECURSIVE IndexPrimary(_, _, _)
IndexPrimary(idx, entries, i) ==
    IF i > Len(entries) THEN idx
    ELSE LET e   == entries[i]
             url == EntryUrl(e)
         IN  IF url = <<>> THEN IndexPrimary(idx, entries, i + 1)
             ELSE IndexPrimary(Put(idx, fu_normalize_url(url),
                                   [feed |-> "PhishTank", entry |-> e]),
                               entries, i + 1)

\* the second loop of build_index, from line i on; the entry {"url": url}
\* is written with an empty phish_url and meta 0
RECURSIVE IndexSecondary(_, _, _)
IndexSecondary(idx, lines, i) ==
    IF i > Len(lines) THEN idx
    ELSE LET url  == lines[i]
             norm == fu_normalize_url(url)
         IN  IF norm \in DOMAIN idx THEN IndexSecondary(idx, lines, i + 1)
             ELSE IndexSecondary(Put(idx, norm,
                                     [feed |-> "OpenPhish",
                                      entry |-> [url |-> url, phish_url |-> <<>>,
                                                 meta |-> 0]]),
                                 lines, i + 1)

build_index(entries, lines) ==
    IndexSecondary(IndexPrimary(<<>>, entries, 1), lines, 1)

\* the loop of check_threat_feeds over the cached PhishTank entries, from
\* entry i on: the first entry whose normalized 'url' equals norm
RECURSIVE FirstMatch(_, _, _)
FirstMatch(norm, entries, i) ==
    IF i > Len(entries) THEN 0
    ELSE LET feed_url == entries[i].url
         IN  IF feed_url = <<>> THEN FirstMatch(norm, entries, i + 1)
             ELSE IF ti_normalize_url(feed_url) = norm THEN i
             ELSE FirstMatch(norm, entries, i + 1)

\* check_threat_feeds(url) over a cache holding entries
check_threat_feeds(url, entries) ==
    LET norm == ti_normalize_url(url)
        hit  == FirstMatch(norm, entries, 1)
    IN  IF norm = Raised
        THEN [url |-> <<url>>, raised |-> TRUE, found |-> FALSE, feed |-> "",
              entry |-> <<>>]
        ELSE IF hit # 0
        THEN [url |-> <<url>>, raised |-> FALSE, found |-> TRUE,
              feed |-> "PhishTank", entry |-> <<entries[hit]>>]
        ELSE [url |-> <<url>>, raised |-> FALSE, found |-> FALSE, feed |-> "",
              entry |-> <<>>]

\* ------------------------------------------------------------------------
\* Canonicalizer runs: an input string, and each normalizer applied to it
\* and then to its own output
\* ------------------------------------------------------------------------
MaxTokens == 3

CanonTokens ==
    {HTTPSEP, SEP, <<"a">>, <<"A">>, <<"/">>, <<"?">>, <<"#">>, <<";">>,
     <<"[">>, <<" ">>}

RECURSIVE Words(_)
Words(n) ==
    IF n = 0 THEN {<<>>}
    ELSE LET shorter == Words(n - 1)
         IN  shorter \cup {w \o t : w \in shorter, t \in CanonTokens}

\* a normalizer's output, and its output on that output; when the first
\* application raises there is no second one
Again(once, twice) == IF once = Raised THEN <<Raised, Raised>> ELSE <<once, twice>>

NoCanon == [fu |-> <<>>, st |-> <<>>, ti |-> <<>>]

NormalizeUrlFeed ==
    /\ canon.fu = <<>>
    /\ canon' = [canon EXCEPT !.fu = Again(fu_normalize_url(rawUrl),
                                            fu_normalize_url(fu_normalize_url(rawUrl)))]
    /\ UNCHANGED <<rawUrl, apiVars, heurVars, feedVars, procVars>>

NormalizeForStorage ==
    /\ canon.st = <<>>
    /\ canon' = [canon EXCEPT !.st = Again(normalize_for_storage(rawUrl),
                                            normalize_for_storage(normalize_for_storage(rawUrl)))]
    /\ UNCHANGED <<rawUrl, apiVars, heurVars, feedVars, procVars>>

NormalizeUrlLookup ==
    /\ canon.ti = <<>>
    /\ canon' = [canon EXCEPT !.ti = Again(ti_normalize_url(rawUrl),
                                            ti_normalize_url(ti_normalize_url(rawUrl)))]
    /\ UNCHANGED <<rawUrl, apiVars, heurVars, feedVars, procVars>>

\* the parts of the state a run leaves alone
ApiIdle ==
    /\ PHISHSCAN_THRESHOLD = 4500
    /\ env = [w_ml |-> <<>>, w_h |-> <<>>, threshold |-> <<>>]
    /\ resp = NoResp
    /\ lastSet = <<>>
    /\ bundle = NoBundle

CanonIdle == rawUrl = <<>> /\ canon = NoCanon

HeurIdle == urlA = <<>> /\ urlB = <<>> /\ reports = NoReports

FeedIdle ==
    /\ phishtank_entries = <<>>
    /\ openphish_lines = <<>>
    /\ index = <<>>
    /\ lookup = NoLookup

NoReplies == [pt |-> [kind |-> "none"], op |-> [kind |-> "none"]]

UpdaterIdle ==
    /\ replies = NoReplies
    /\ index_file = <<>>
    /\ main_status = "idle"

CacheFileIdle ==
    /\ now = 0
    /\ cache_file = <<>>
    /\ thread = <<>>
    /\ req = [pc |-> "idle"]

NoPage == [kind |-> "none"]
NoHtml == [fetch |-> <<>>, forms |-> <<>>, result |-> <<>>, risk |-> <<>>]

HtmlIdle == page = NoPage /\ html = NoHtml

ProcIdle == UpdaterIdle /\ CacheFileIdle /\ HtmlIdle

InitCanon ==
    /\ rawUrl \in Words(MaxTokens)
    /\ canon = NoCanon
    /\ ApiIdle /\ HeurIdle /\ FeedIdle /\ ProcIdle

NextCanon ==
    \/ NormalizeUrlFeed
    \/ NormalizeForStorage
    \/ NormalizeUrlLookup

SpecCanon == InitCanon /\ [][NextCanon]_vars

\* ------------------------------------------------------------------------
\* The API process: requests against the runtime threshold
\* ------------------------------------------------------------------------
Steps == 2

\* signal values 0, 1/Steps, .., 1 in hundredths
Grid == {(k * Unit) \div Steps : k \in 0..Steps}

\* what the ML model may return: the grid, and a value above 1
Probs == Grid \cup {150}

\* what check_ssl may return as risk_score: the grid, and the 50 of its
\* error branch (on the 0..100 scale)
SslRisks == Grid \cup {50 * Unit}

\* bodies a client may post to /config/threshold: the thresholds 0, 1/Steps,
\* .., 1, one step below 0 and above 1, and the values next to the ends of
\* the range; and the bodies float() cannot use
ThresholdBodies ==
    {[kind |-> "missing", t |-> 0], [kind |-> "text", t |-> 0],
     [kind |-> "nan", t |-> 0]}
    \cup {[kind |-> "num", t |-> t] :
              t \in {(k * One) \div Steps : k \in (-1)..(Steps + 1)}
                    \cup {-1, One + 1}}

Filler(n) == [i \in 1..n |-> "x"]

U_PLAIN   == HTTPSEP \o <<"a",".","b">>
U_IPLOGIN == HTTPSEP \o <<"1",".","2",".","3",".","4","/">> \o KW_LOGIN
U_LONG    == U_IPLOGIN \o <<"?","!","!","!","!","!","!">> \o Filler(60)
U_HALF    == <<"[">> \o SEP \o <<"a">>

\* request bodies of /predict and /scan: no 'url', or one of the strings
Bodies(urls) == {[url |-> <<>>]} \cup {[url |-> <<u>>] : u \in urls}

\* a plain URL, one that triggers rules, one whose host is an unmatched '[',
\* one that only scan_url cannot parse, and a blank string
ApiUrls == {U_PLAIN, U_IPLOGIN, HTTPSEP \o <<"[">>, U_HALF, <<" ">>}

\* what the shipped collaborators of scan_url return for a URL:
\* check_ssl gives risk_score 0 and check_threat_feeds gives found False
StubSig(prob, login_form, ml_raises) ==
    [ssl_risk |-> 0, feed_found |-> FALSE, login_form |-> login_form,
     ml_prob |-> prob, ml_raises |-> ml_raises]

\* the environment at process start: each variable unset or set
Envs ==
    LET weights == {[w_ml |-> <<>>, w_h |-> <<>>],
                    [w_ml |-> <<150>>, w_h |-> <<150>>],
                    [w_ml |-> <<-50>>, w_h |-> <<20>>],
                    [w_ml |-> <<100>>, w_h |-> <<>>]}
        thresholds == {<<>>, <<One \div 2>>, <<One + One \div 2>>}
    IN  {[w_ml |-> w.w_ml, w_h |-> w.w_h, threshold |-> t] :
            w \in weights, t \in thresholds}

\* PHISHSCAN_THRESHOLD = float(os.getenv('PHISHSCAN_THRESHOLD', '0.45'))
InitialThreshold(e) ==
    IF e.threshold = <<>> THEN DEFAULT_THRESHOLD ELSE e.threshold[1]

Init ==
    /\ env \in Envs
    /\ PHISHSCAN_THRESHOLD = InitialThreshold(env)
    /\ resp = NoResp
    /\ lastSet = <<>>
    /\ bundle = NoBundle
    /\ CanonIdle /\ HeurIdle /\ FeedIdle /\ ProcIdle

Health ==
    /\ resp' = [op |-> "health", status |-> 200]
    /\ UNCHANGED <<PHISHSCAN_THRESHOLD, env, lastSet, bundle,
                   canonVars, heurVars, feedVars, procVars>>

ConfigThresholdGet ==
    LET r == config_threshold("GET", [kind |-> "missing", t |-> 0], PHISHSCAN_THRESHOLD)
    IN  /\ resp' = [op |-> "get_threshold", status |-> r.status,
                    threshold |-> r.threshold]
        /\ PHISHSCAN_THRESHOLD' = r.new
        /\ UNCHANGED <<env, lastSet, bundle, canonVars, heurVars, feedVars, procVars>>

ConfigThresholdPost ==
    \E data \in ThresholdBodies :
        LET r == config_threshold("POST", data, PHISHSCAN_THRESHOLD)
        IN  /\ resp' = [op |-> "post_threshold", status |-> r.status,
                        threshold |-> r.threshold, error |-> r.error,
                        request |-> data]
            /\ PHISHSCAN_THRESHOLD' = r.new
            /\ lastSet' = IF r.status = 200 THEN <<data.t>> ELSE lastSet
            /\ UNCHANGED <<env, bundle, canonVars, heurVars, feedVars, procVars>>

\* GET /history: 400 when limit or page is no integer, else the stored rows,
\* which are not part of this model
History ==
    \E bad_args \in BOOLEAN :
        /\ resp' = [op |-> "history", status |-> IF bad_args THEN 400 ELSE 200]
        /\ UNCHANGED <<PHISHSCAN_THRESHOLD, env, lastSet, bundle,
                       canonVars, heurVars, feedVars, procVars>>

\* faulty variant: /predict assigns the module-level threshold
Predict_reassigning ==
    \E data \in Bodies(ApiUrls), prob \in Probs, ml_fails \in BOOLEAN,
       raises \in BOOLEAN :
        /\ resp' = predict(data, prob, ml_fails, StubSig(prob, FALSE, raises),
                           env, PHISHSCAN_THRESHOLD)
        /\ PHISHSCAN_THRESHOLD' = DEFAULT_THRESHOLD
        /\ UNCHANGED <<env, lastSet, bundle,
                       canonVars, heurVars, feedVars, procVars>>

Predict ==
    \E data \in Bodies(ApiUrls), prob \in Probs, ml_fails \in BOOLEAN,
       raises \in BOOLEAN :
        /\ resp' = predict(data, prob, ml_fails, StubSig(prob, FALSE, raises),
                           env, PHISHSCAN_THRESHOLD)
        /\ UNCHANGED <<PHISHSCAN_THRESHOLD, env, lastSet, bundle,
                       canonVars, heurVars, feedVars, procVars>>

Scan ==
    \E data \in Bodies(ApiUrls), prob \in Probs, login \in BOOLEAN,
       raises \in BOOLEAN :
        /\ resp' = scan(data, StubSig(prob, login, raises))
        /\ UNCHANGED <<PHISHSCAN_THRESHOLD, env, lastSet, bundle,
                       canonVars, heurVars, feedVars, procVars>>

Next ==
    \/ Health
    \/ History
    \/ ConfigThresholdGet
    \/ ConfigThresholdPost
    \/ Predict
    \/ Scan

Spec == Init /\ [][Next]_vars

\* ------------------------------------------------------------------------
\* Aggregation runs: one request with a drawn signal bundle, aggregated in
\* the five-signal mode (scan_url) and in the two-signal mode (predict)
\* ------------------------------------------------------------------------
AggUrls == {U_PLAIN, U_IPLOGIN, U_LONG, U_HALF}

Bundles ==
    [data : {[url |-> <<u>>] : u \in AggUrls},
     sig : [ssl_risk : SslRisks, feed_found : BOOLEAN, login_form : BOOLEAN,
            ml_prob : Probs, ml_raises : {FALSE}]]

InitAgg ==
    /\ env \in Envs
    /\ PHISHSCAN_THRESHOLD = InitialThreshold(env)
    /\ bundle \in Bundles
    /\ resp = NoResp
    /\ lastSet = <<>>
    /\ CanonIdle /\ HeurIdle /\ FeedIdle /\ ProcIdle

AggregateFive ==
    /\ resp.op # "scan"
    /\ resp' = scan(bundle.data, bundle.sig)
    /\ UNCHANGED <<PHISHSCAN_THRESHOLD, env, lastSet, bundle,
                   canonVars, heurVars, feedVars, procVars>>

AggregateTwo ==
    /\ resp.op # "predict"
    /\ resp' = predict(bundle.data, bundle.sig.ml_prob, FALSE, bundle.sig,
                       env, PHISHSCAN_THRESHOLD)
    /\ UNCHANGED <<PHISHSCAN_THRESHOLD, env, lastSet, bundle,
                   canonVars, heurVars, feedVars, procVars>>

NextAgg ==
    \/ AggregateFive
    \/ AggregateTwo

SpecAgg == InitAgg /\ [][NextAgg]_vars

\* ------------------------------------------------------------------------
\* Rule engine runs: two URLs, each analysed by the engine of phishscan/app,
\* then by the engine of app, then scanned
\* ------------------------------------------------------------------------
PadLen == 60

\* the example of the docstring of app/heuristics.py,
\* "http://192.168.1.10/login?verify=true", and "http://example.com"
U_SCENARIO ==
    HTTPSEP \o <<"1","9","2",".","1","6","8",".","1",".","1","0","/">>
    \o KW_LOGIN \o <<"?">> \o KW_VERIFY \o <<"=","t","r","u","e">>
U_EXAMPLE == HTTPSEP \o <<"e","x","a","m","p","l","e",".","c","o","m">>

\* "http://user@10.0.0.1:8080", a dotted quad behind credentials and a port
U_CREDENTIALS ==
    HTTPSEP \o <<"u","s","e","r","@","1","0",".","0",".","0",".","1",
                 ":","8","0","8","0">>

\* hosts: a name, a dotted quad, a dotted quad with a part above 255, four
\* labels, six labels, an unmatched '['; paths: none, a keyword, two
\* keywords, an escaped keyword; and "/@@!!!!", six characters outside the
\* plain class with two '@'
HeurUrls ==
    LET hosts    == {<<"a",".","b">>, <<"1",".","2",".","3",".","4">>,
                     <<"9","9","9",".","1",".","1",".","1">>,
                     <<"a",".","b",".","c",".","d">>,
                     <<"a",".","b",".","c",".","d",".","e",".","f">>,
                     <<"[">>}
        paths    == {<<>>, <<"/">> \o KW_LOGIN,
                     <<"/">> \o KW_LOGIN \o <<"?">> \o KW_VERIFY,
                     <<"/","%","6","c","o","g","i","n">>}
        specials == {<<>>, <<"/","@","@","!","!","!","!">>}
    IN  {HTTPSEP \o h \o p \o x \o Filler(n) :
            h \in hosts, p \in paths, x \in specials, n \in {0, PadLen}}
        \cup {U_SCENARIO, U_EXAMPLE, U_CREDENTIALS}

InitHeur ==
    /\ urlA \in HeurUrls
    /\ urlB \in HeurUrls
    /\ reports = NoReports
    /\ ApiIdle /\ CanonIdle /\ FeedIdle /\ ProcIdle

AnalyzeUrl ==
    /\ reports.p = <<>>
    /\ reports' = [reports EXCEPT !.p = <<analyze_url(urlA), analyze_url(urlB)>>]
    /\ UNCHANGED <<urlA, urlB, apiVars, canonVars, feedVars, procVars>>

AppAnalyzeUrl ==
    /\ reports.p # <<>>
    /\ reports.a = <<>>
    /\ reports' = [reports EXCEPT !.a = <<app_analyze_url(urlA), app_analyze_url(urlB)>>]
    /\ UNCHANGED <<urlA, urlB, apiVars, canonVars, feedVars, procVars>>

ScanUrl ==
    /\ reports.a # <<>>
    /\ reports.s = <<>>
    /\ reports' = [reports EXCEPT !.s = <<scan_url(urlA, StubSig(0, FALSE, FALSE)),
                                          scan_url(urlB, StubSig(0, FALSE, FALSE))>>]
    /\ UNCHANGED <<urlA, urlB, apiVars, canonVars, feedVars, procVars>>

NextHeur ==
    \/ AnalyzeUrl
    \/ AppAnalyzeUrl
    \/ ScanUrl

SpecHeur == InitHeur /\ [][NextHeur]_vars

\* ------------------------------------------------------------------------
\* Feed runs: a primary and a secondary download, the index built from them
\* (feed_updater.main) and lookups against the cached primary feed
\* ------------------------------------------------------------------------
MaxFeed == 2

F_PLAIN == HTTPSEP \o <<"e",".","c","o">>

\* "http://e.co", "E.co/" with the same index key, and "http://b.co"
FeedUrls == {F_PLAIN, <<"E",".","c","o","/">>, HTTPSEP \o <<"b",".","c","o">>}

\* PhishTank entries: a 'url' with metadata, a 'phish_url' only, or neither
FeedEntries ==
    {[url |-> u, phish_url |-> <<>>, meta |-> m] : u \in FeedUrls, m \in 1..2}
    \cup {[url |-> <<>>, phish_url |-> F_PLAIN, meta |-> 1],
          [url |-> <<>>, phish_url |-> <<>>, meta |-> 1]}

\* the sequences over S of length at most n
RECURSIVE SeqsUpTo(_, _)
SeqsUpTo(S, n) ==
    IF n = 0 THEN {<<>>}
    ELSE LET shorter == SeqsUpTo(S, n - 1)
         IN  shorter \cup {Append(q, x) : q \in shorter, x \in S}

\* the feed URLs, an unparseable one, and "http://e.c", "http://e.co/x":
\* a prefix and a path extension of a feed URL
LookupUrls ==
    FeedUrls \cup {HTTPSEP \o <<"[">>, HTTPSEP \o <<"e",".","c">>,
                   F_PLAIN \o <<"/","x">>}

InitFeed ==
    /\ phishtank_entries \in SeqsUpTo(FeedEntries, MaxFeed)
    /\ openphish_lines \in SeqsUpTo(FeedUrls, MaxFeed)
    /\ index = <<>>
    /\ lookup = NoLookup
    /\ ApiIdle /\ CanonIdle /\ HeurIdle /\ ProcIdle

\* main: build_index over the two downloads, then save_index
BuildIndex ==
    /\ index = <<>>
    /\ index' = <<build_index(phishtank_entries, openphish_lines)>>
    /\ UNCHANGED <<phishtank_entries, openphish_lines, lookup,
                   apiVars, canonVars, heurVars, procVars>>

CheckThreatFeeds ==
    \E url \in LookupUrls :
        /\ lookup' = check_threat_feeds(url, phishtank_entries)
        /\ UNCHANGED <<phishtank_entries, openphish_lines, index,
                       apiVars, canonVars, heurVars, procVars>>

NextFeed ==
    \/ BuildIndex
    \/ CheckThreatFeeds

SpecFeed == InitFeed /\ [][NextFeed]_vars

\* ------------------------------------------------------------------------
\* phishscan/feed_updater.py main: the two downloads, build_index and
\* save_index, against what the two sources answer
\* ------------------------------------------------------------------------
\* download_phishtank against a reply: requests.get or raise_for_status or
\* resp.json() raises; or the JSON is a number (len() raises), an object
\* (its first list value, else []), a list of objects, or a list of strings
download_phishtank(reply) ==
    CASE reply.kind \in {"unreachable", "http_error", "not_json", "number"} ->
            [raised |-> TRUE, entries |-> <<>>, dicts |-> TRUE]
      [] reply.kind = "object_no_list" ->
            [raised |-> FALSE, entries |-> <<>>, dicts |-> TRUE]
      [] reply.kind \in {"object", "list"} ->
            [raised |-> FALSE, entries |-> reply.items, dicts |-> TRUE]
      [] reply.kind = "strings" ->
            [raised |-> FALSE, entries |-> reply.items, dicts |-> FALSE]

\* download_openphish against a reply: the stripped non-blank lines of the
\* body
download_openphish(reply) ==
    LET Stripped(lines) ==
            SelectSeq([i \in DOMAIN lines |-> Strip(lines[i])],
                      LAMBDA l : l # <<>>)
    IN  IF reply.kind \in {"unreachable", "http_error"}
        THEN [raised |-> TRUE, lines |-> <<>>]
        ELSE [raised |-> FALSE, lines |-> Stripped(reply.lines)]

\* main: a failed download counts as []; build_index calls e.get on every
\* primary entry, which raises on an entry that is not an object; nothing
\* is saved then
main(pt_reply, op_reply) ==
    LET Build(pt, lines) ==
            IF ~pt.dicts /\ pt.entries # <<>>
            THEN [status |-> "raised", file |-> <<>>]
            ELSE [status |-> "done",
                  file |-> <<build_index(pt.entries, lines)>>]
        Lines(op) == IF op.raised THEN <<>> ELSE op.lines
        Entries(pt) == IF pt.raised THEN [pt EXCEPT !.entries = <<>>] ELSE pt
    IN  Build(Entries(download_phishtank(pt_reply)),
              Lines(download_openphish(op_reply)))

\* what the PhishTank source may answer
PhishTankReplies ==
    {[kind |-> k] : k \in {"unreachable", "http_error", "not_json", "number",
                           "object_no_list"}}
    \cup {[kind |-> k, items |-> q] :
              k \in {"object", "list"}, q \in SeqsUpTo(FeedEntries, MaxFeed)}
    \cup {[kind |-> "strings", items |-> q] : q \in SeqsUpTo(FeedUrls, 1)}

\* what the OpenPhish source may answer: nothing, or lines some of them blank
OpenPhishReplies ==
    {[kind |-> k] : k \in {"unreachable", "http_error"}}
    \cup {[kind |-> "text", lines |-> q] :
              q \in SeqsUpTo({F_PLAIN, <<" ">> \o F_PLAIN, <<" ">>}, MaxFeed)}

InitUpdater ==
    /\ replies \in [pt : PhishTankReplies, op : OpenPhishReplies]
    /\ index_file = <<>>
    /\ main_status = "idle"
    /\ ApiIdle /\ CanonIdle /\ HeurIdle /\ FeedIdle /\ CacheFileIdle
    /\ HtmlIdle

FeedUpdaterMain ==
    /\ main_status = "idle"
    /\ main_status' = main(replies.pt, replies.op).status
    /\ index_file' = main(replies.pt, replies.op).file
    /\ UNCHANGED <<replies, now, cache_file, thread, req,
                   apiVars, canonVars, heurVars, feedVars, htmlVars>>

SpecUpdater == InitUpdater /\ [][FeedUpdaterMain]_vars

\* ------------------------------------------------------------------------
\* app/threat_intel.py: the cached PhishTank feed, refreshed by the lookups
\* themselves.  A file is its modification time and its text; the text of a
\* feed is its entries followed by the closing bracket.
\* ------------------------------------------------------------------------
CACHE_TTL_SECONDS == 24 * 3600

\* the closing bracket of the JSON list
EOT == [url |-> <<"]">>, phish_url |-> <<>>, meta |-> 0]

\* _load_phishtank_feed: None (<<>>) when the file is missing or json.load
\* fails on its text, else the entries
_load_phishtank_feed(file) ==
    LET Parse(text, n) ==
            IF n >= 1 /\ text[n] = EOT /\ \A i \in 1..(n - 1) : text[i] # EOT
            THEN <<Take(text, n - 1)>>
            ELSE <<>>
    IN  IF file = <<>> THEN <<>> ELSE Parse(file[1].text, Len(file[1].text))

\* faulty variant: a cache as old as the TTL is already stale
do_download_inclusive(file, t) ==
    file = <<>> \/ t - file[1].mtime >= CACHE_TTL_SECONDS

\* do_download of update_phishtank_feed: the cache is missing, or older
\* than CACHE_TTL_SECONDS
do_download(file, t) ==
    file = <<>> \/ t - file[1].mtime > CACHE_TTL_SECONDS

\* the feeds the source may serve: one entry, or two
Snapshots ==
    {<<[url |-> F_PLAIN, phish_url |-> <<>>, meta |-> 1]>>,
     <<[url |-> HTTPSEP \o <<"b",".","c","o">>, phish_url |-> <<>>, meta |-> 2],
       [url |-> F_PLAIN, phish_url |-> <<>>, meta |-> 2]>>}

Threads == {1, 2}

MaxTicks == 3

NoThread ==
    [pc |-> "idle", url |-> <<>>, data |-> <<>>, seen |-> <<>>, at |-> 0,
     fetched |-> FALSE, failed |-> FALSE, read |-> <<>>, result |-> NoLookup]

InitCache ==
    /\ now = 0
    /\ cache_file \in {<<>>} \cup {<<[mtime |-> 0, text |-> Append(s, EOT)]>> :
                                     s \in Snapshots}
    /\ thread = [t \in Threads |-> NoThread]
    /\ req = [pc |-> "idle"]
    /\ ApiIdle /\ CanonIdle /\ HeurIdle /\ FeedIdle /\ UpdaterIdle
    /\ HtmlIdle

\* half a TTL passes
Tick ==
    /\ now < MaxTicks * (CACHE_TTL_SECONDS \div 2)
    /\ now' = now + CACHE_TTL_SECONDS \div 2
    /\ UNCHANGED <<cache_file, thread, replies, index_file, main_status, req,
                   apiVars, canonVars, heurVars, feedVars, htmlVars>>

\* check_threat_feeds(url) is called; update_phishtank_feed decides whether
\* to download (lines 43-50)
Lookup(t) ==
    \E url \in {F_PLAIN, HTTPSEP \o <<"b",".","c","o">>, HTTPSEP \o <<"[">>} :
        /\ thread[t].pc \in {"idle", "done"}
        /\ thread' = [thread EXCEPT ![t] =
               [NoThread EXCEPT
                    !.pc = IF do_download(cache_file, now) THEN "get"
                           ELSE "load",
                    !.url = url, !.seen = cache_file, !.at = now]]
        /\ UNCHANGED <<now, cache_file, replies, index_file, main_status, req,
                       apiVars, canonVars, heurVars, feedVars, htmlVars>>

\* faulty variant: the cache is opened for writing before the request is
\* made, so a failed request leaves it truncated
Download_truncating(t) ==
    /\ thread[t].pc = "get"
    /\ \/ /\ thread' = [thread EXCEPT ![t].pc = "load", ![t].fetched = TRUE,
                                      ![t].failed = TRUE]
          /\ cache_file' = <<[mtime |-> now, text |-> <<>>]>>
       \/ \E s \in Snapshots :
              /\ thread' = [thread EXCEPT ![t].pc = "open", ![t].fetched = TRUE,
                                          ![t].data = Append(s, EOT)]
              /\ UNCHANGED cache_file
    /\ UNCHANGED <<now, replies, index_file, main_status, req,
                   apiVars, canonVars, heurVars, feedVars, htmlVars>>

\* requests.get and raise_for_status (lines 55-57): they raise, which the
\* except branch swallows, or the body is one of the feeds
Download(t) ==
    /\ thread[t].pc = "get"
    /\ \/ thread' = [thread EXCEPT ![t].pc = "load", ![t].fetched = TRUE,
                                   ![t].failed = TRUE]
       \/ \E s \in Snapshots :
              thread' = [thread EXCEPT ![t].pc = "open", ![t].fetched = TRUE,
                                       ![t].data = Append(s, EOT)]
    /\ UNCHANGED <<now, cache_file, replies, index_file, main_status, req,
                   apiVars, canonVars, heurVars, feedVars, htmlVars>>

\* open(CACHE_FILE, "w") (line 58) truncates the file
OpenCache(t) ==
    /\ thread[t].pc = "open"
    /\ cache_file' = <<[mtime |-> now, text |-> <<>>]>>
    /\ thread' = [thread EXCEPT ![t].pc = "write"]
    /\ UNCHANGED <<now, replies, index_file, main_status, req,
                   apiVars, canonVars, heurVars, feedVars, htmlVars>>

\* f.write(data) and the close (line 59): the data goes to the start of the
\* file, over what is there
WriteCache(t) ==
    /\ thread[t].pc = "write"
    /\ cache_file' =
           <<[mtime |-> now,
              text |-> thread[t].data
                       \o Drop(cache_file[1].text, Len(thread[t].data))]>>
    /\ thread' = [thread EXCEPT ![t].pc = "load"]
    /\ UNCHANGED <<now, replies, index_file, main_status, req,
                   apiVars, canonVars, heurVars, feedVars, htmlVars>>

\* _load_phishtank_feed and the rest of check_threat_feeds (lines 111-151);
\* with no entries loaded the answer is found False
LoadFeed(t) ==
    LET Answer(entries) ==
            check_threat_feeds(thread[t].url,
                               IF entries = <<>> THEN <<>> ELSE entries[1])
    IN  /\ thread[t].pc = "load"
        /\ thread' = [thread EXCEPT
               ![t].pc = "done", ![t].read = cache_file,
               ![t].result = Answer(_load_phishtank_feed(cache_file))]
        /\ UNCHANGED <<now, cache_file, replies, index_file, main_status, req,
                       apiVars, canonVars, heurVars, feedVars, htmlVars>>

NextCache ==
    \/ Tick
    \/ \E t \in Threads : Lookup(t)
    \/ \E t \in Threads : Download(t)
    \/ \E t \in Threads : OpenCache(t)
    \/ \E t \in Threads : WriteCache(t)
    \/ \E t \in Threads : LoadFeed(t)

SpecCache == InitCache /\ [][NextCache]_vars

\* ------------------------------------------------------------------------
\* api.py predict read by read, with threshold writes in between: the two
\* weights are read from the environment (lines 210-211), the threshold
\* from the module global (line 222)
\* ------------------------------------------------------------------------
InitConfig ==
    /\ env \in Envs
    /\ PHISHSCAN_THRESHOLD = InitialThreshold(env)
    /\ resp = NoResp
    /\ lastSet = <<>>
    /\ bundle = NoBundle
    /\ req = [pc |-> "idle"]
    /\ CanonIdle /\ HeurIdle /\ FeedIdle /\ UpdaterIdle /\ HtmlIdle
    /\ now = 0 /\ cache_file = <<>> /\ thread = <<>>

\* a request reaches line 210, os.getenv('PHISHSCAN_WEIGHT_ML', ...), with
\* its ML probability and, unless scan_url raised, its heuristic score
PredictReadWeightMl ==
    \E url \in {U_PLAIN, U_IPLOGIN, U_HALF}, prob \in Probs :
        /\ req.pc \in {"idle", "done"}
        /\ req' = [pc |-> "w_h", data |-> [url |-> <<url>>], prob |-> prob,
                   t0 |-> PHISHSCAN_THRESHOLD, w_ml |-> env.w_ml,
                   w_h |-> <<>>, threshold |-> 0, result |-> NoResp]
        /\ UNCHANGED <<apiVars, canonVars, heurVars, feedVars, replies,
                       index_file, main_status, now, cache_file, thread,
                       htmlVars>>

\* line 211: os.getenv('PHISHSCAN_WEIGHT_HEURISTIC', ...)
PredictReadWeightH ==
    /\ req.pc = "w_h"
    /\ req' = [req EXCEPT !.pc = "threshold", !.w_h = env.w_h]
    /\ UNCHANGED <<apiVars, canonVars, heurVars, feedVars, replies,
                   index_file, main_status, now, cache_file, thread,
                   htmlVars>>

\* faulty variant: the threshold the request uses is the one in force when
\* the request began
PredictVerdict_early ==
    /\ req.pc = "threshold"
    /\ req' = [req EXCEPT
           !.pc = "done", !.threshold = req.t0,
           !.result = predict(req.data, req.prob, FALSE,
                              StubSig(req.prob, FALSE, FALSE),
                              [env EXCEPT !.w_ml = req.w_ml, !.w_h = req.w_h],
                              req.t0)]
    /\ UNCHANGED <<apiVars, canonVars, heurVars, feedVars, replies,
                   index_file, main_status, now, cache_file, thread,
                   htmlVars>>

\* lines 215-236: the combination with the weights read, and the verdict
\* against threshold = PHISHSCAN_THRESHOLD
PredictVerdict ==
    /\ req.pc = "threshold"
    /\ req' = [req EXCEPT
           !.pc = "done", !.threshold = PHISHSCAN_THRESHOLD,
           !.result = predict(req.data, req.prob, FALSE,
                              StubSig(req.prob, FALSE, FALSE),
                              [env EXCEPT !.w_ml = req.w_ml, !.w_h = req.w_h],
                              PHISHSCAN_THRESHOLD)]
    /\ UNCHANGED <<apiVars, canonVars, heurVars, feedVars, replies,
                   index_file, main_status, now, cache_file, thread,
                   htmlVars>>

NextConfig ==
    \/ ConfigThresholdPost
    \/ PredictReadWeightMl
    \/ PredictReadWeightH
    \/ PredictVerdict

SpecConfig == InitConfig /\ [][NextConfig]_vars

\* ------------------------------------------------------------------------
\* phishscan/html_scanner.py: safe_fetch, analyze_forms, scan_url_html, and
\* line 62 of scan_url
\* ------------------------------------------------------------------------
\* the bytes iter_content asks for at a time, and the size limit
CHUNK_BYTES == 1024
MAX_BYTES == 1048576

\* A page is a sequence of forms, a form the sequence of the type attributes
\* of its inputs; NoType is an input without one.  Its HTML is a sequence of
\* tags.
NoType == <<>>
T_TEXT == <<"t","e","x","t">>
T_PASSWORD == <<"p","a","s","s","w","o","r","d">>
T_PASSWORD_UPPER == <<"P","A","S","S","W","O","R","D">>
T_HIDDEN == <<"h","i","d","d","e","n">>
InputTypes == {T_TEXT, T_PASSWORD, T_PASSWORD_UPPER, T_HIDDEN, NoType}
MaxInputs == 2
MaxForms == 2

FormShapes == SeqsUpTo(InputTypes, MaxInputs)
PageShapes == SeqsUpTo(FormShapes, MaxForms)

InputTag(type) == [tag |-> "input", type |-> type]
OpenTag(name) == [tag |-> name, type |-> NoType]
CloseTag(name) == [tag |-> "/" \o name, type |-> NoType]

RECURSIVE Html(_)
Html(forms) ==
    IF forms = <<>> THEN <<>>
    ELSE <<OpenTag("form")>>
         \o [i \in 1..Len(forms[1]) |-> InputTag(forms[1][i])]
         \o <<CloseTag("form")>> \o Html(Tail(forms))

\* the document: the forms, or a paragraph, in a body
Document(forms) ==
    <<OpenTag("html"), OpenTag("body")>>
    \o (IF forms = <<>> THEN <<OpenTag("p"), CloseTag("p")>> ELSE Html(forms))
    \o <<CloseTag("body"), CloseTag("html")>>

\* the bytes of a tag as written: <form> </form> <input type="..."/> ...
TagBytes(t) ==
    IF t.tag = "input"
    THEN (IF t.type = NoType THEN 8 ELSE 16 + Len(t.type))
    ELSE IF t.tag \in {"form", "html", "body"} THEN 6
    ELSE IF t.tag \in {"/form", "/html", "/body"} THEN 7
    ELSE IF t.tag = "p" THEN 3 ELSE 4

RECURSIVE TextBytes(_)
TextBytes(text) ==
    IF text = <<>> THEN 0 ELSE TagBytes(Head(text)) + TextBytes(Tail(text))

\* r.iter_content(1024) of a reply: the document in pieces of at most two
\* tags, then `padding' pieces of 1024 blanks, kept as one run of equal
\* pieces
Piece(text) == [bytes |-> TextBytes(text), text |-> text, times |-> 1]

RECURSIVE Pieces(_)
Pieces(text) ==
    IF Len(text) <= 2
    THEN (IF text = <<>> THEN <<>> ELSE <<Piece(text)>>)
    ELSE <<Piece(SubSeq(text, 1, 2))>> \o Pieces(Drop(text, 2))

iter_content(reply) ==
    Pieces(Document(reply.forms))
    \o (IF reply.padding = 0 THEN <<>>
        ELSE <<[bytes |-> CHUNK_BYTES, text |-> <<>>, times |-> reply.padding]>>)

\* b"".join(chunks)
RECURSIVE Join(_)
Join(chunks) ==
    IF chunks = <<>> THEN <<>> ELSE Head(chunks).text \o Join(Tail(chunks))

\* safe_fetch(url), given what requests.get answers.  The loop adds up the
\* sizes of the pieces and returns when the sum passes MAX_BYTES (within a
\* run of equal pieces: when the sum after the whole run does); no piece
\* is ever appended to `chunks', which is still [] when it is joined.
\* has_text tells a text (possibly "") from None.
safe_fetch(reply) ==
    LET RECURSIVE Loop(_, _, _)
        Loop(rest, size, chunks) ==
            IF rest = <<>> \/ Head(rest).bytes = 0
            THEN [fetched |-> TRUE, status |-> <<reply.status>>,
                  text |-> Join(chunks), has_text |-> TRUE, error |-> ""]
            ELSE IF size + Head(rest).bytes * Head(rest).times > MAX_BYTES
            THEN [fetched |-> FALSE, status |-> <<reply.status>>, text |-> <<>>,
                  has_text |-> FALSE, error |-> "response-too-large"]
            ELSE Loop(Tail(rest), size + Head(rest).bytes * Head(rest).times,
                      chunks)
    IN  IF reply.kind = "error"
        THEN [fetched |-> FALSE, status |-> <<>>, text |-> <<>>,
              has_text |-> FALSE, error |-> "exception"]
        ELSE Loop(iter_content(reply), 0, <<>>)

\* BeautifulSoup(text, "html.parser").find_all("form"), each form with its
\* find_all("input"): the inputs between a <form> and its </form>
BeautifulSoup(text) ==
    LET RECURSIVE Parse(_, _, _)
        \* open: <<>> outside a form, else <<the inputs seen so far>>
        Parse(rest, open, forms) ==
            IF rest = <<>> THEN forms
            ELSE IF Head(rest).tag = "form"
            THEN Parse(Tail(rest), <<(<<>>)>>, forms)
            ELSE IF Head(rest).tag = "/form" /\ open # <<>>
            THEN Parse(Tail(rest), <<>>, Append(forms, open[1]))
            ELSE IF Head(rest).tag = "input" /\ open # <<>>
            THEN Parse(Tail(rest), <<Append(open[1], Head(rest))>>, forms)
            ELSE Parse(Tail(rest), open, forms)
    IN  Parse(text, <<>>, <<>>)

\* inp.get("type", "").lower()
InputType(inp) == Lower(inp.type)

\* analyze_forms(soup, base_url): per form whether it has a password input,
\* how many hidden inputs, and the hidden-with-password test; the inputs of
\* these pages carry no name and the forms no action, so the origin and the
\* token tests stay silent
analyze_forms(soup) ==
    LET Types(form) == [i \in 1..Len(form) |-> InputType(form[i])]
        Has(form, type) == \E i \in 1..Len(form) : Types(form)[i] = type
        Info(form) ==
            [has_password |-> Has(form, T_PASSWORD),
             hidden_inputs |-> Cardinality({i \in 1..Len(form) :
                                               Types(form)[i] = T_HIDDEN}),
             input_names |-> [i \in 1..Len(form) |-> ""],
             suspicious |-> Has(form, T_PASSWORD) /\ Has(form, T_HIDDEN)]
        results == [i \in 1..Len(soup) |-> Info(soup[i])]
    IN  [form_count |-> Len(results), forms |-> results,
         login_forms |-> SelectSeq(results, LAMBDA f : f.has_password)]

\* scan_url_html(url)
scan_url_html(reply) ==
    LET Scanned(fetch) ==
            IF ~fetch.fetched \/ ~fetch.has_text \/ fetch.text = <<>>
            THEN [fetched |-> FALSE, status |-> fetch.status,
                  form_count |-> 0, forms |-> <<>>, login_forms |-> <<>>]
            ELSE [fetched |-> TRUE, status |-> fetch.status]
                 @@ analyze_forms(BeautifulSoup(fetch.text))
    IN  Scanned(safe_fetch(reply))

\* scan_url line 62: 1 if html_result.get("login_form_present") or
\* html_result.get("login_forms") else 0; no result has the first key
html_risk(html_result) == IF html_result.login_forms # <<>> THEN 1 ELSE 0

\* what the site may answer: an exception, or a status and a document with
\* nothing, one piece short of the limit, or enough to pass it after it
Paddings == {0, MAX_BYTES \div CHUNK_BYTES - 1, MAX_BYTES \div CHUNK_BYTES}

Replies ==
    {[kind |-> "error", status |-> 0, forms |-> <<>>, padding |-> 0]}
    \cup {[kind |-> "ok", status |-> st, forms |-> f, padding |-> pd] :
             st \in {200, 404}, f \in PageShapes, pd \in Paddings}

InitHtml ==
    /\ page \in Replies
    /\ html = NoHtml
    /\ ApiIdle /\ CanonIdle /\ HeurIdle /\ FeedIdle
    /\ UpdaterIdle /\ CacheFileIdle

\* safe_fetch on the reply
SafeFetch ==
    /\ html.fetch = <<>>
    /\ html' = [html EXCEPT !.fetch = <<safe_fetch(page)>>]
    /\ UNCHANGED <<page, apiVars, canonVars, heurVars, feedVars, replies,
                   index_file, main_status, now, cache_file, thread, req>>

\* analyze_forms on the parsed document, as the tests call it
AnalyzeForms ==
    /\ html.forms = <<>>
    /\ page.kind = "ok"
    /\ html' = [html EXCEPT
                   !.forms = <<analyze_forms(BeautifulSoup(Document(page.forms)))>>]
    /\ UNCHANGED <<page, apiVars, canonVars, heurVars, feedVars, replies,
                   index_file, main_status, now, cache_file, thread, req>>

\* scan_url lines 61-62
ScanUrlHtml ==
    /\ html.result = <<>>
    /\ html' = [html EXCEPT !.result = <<scan_url_html(page)>>,
                            !.risk = <<html_risk(scan_url_html(page))>>]
    /\ UNCHANGED <<page, apiVars, canonVars, heurVars, feedVars, replies,
                   index_file, main_status, now, cache_file, thread, req>>

NextHtml ==
    \/ SafeFetch
    \/ AnalyzeForms
    \/ ScanUrlHtml

SpecHtml == InitHtml /\ [][NextHtml]_vars

\* ------------------------------------------------------------------------
\* Properties of the rule engines
\* ------------------------------------------------------------------------
Verdicts == {"phishing", "legitimate"}

\* every rule that fired in a fired in b
FiredSubset(a, b) == Range(a.reasons) \subseteq Range(b.reasons)

\* every rule suspicious in a is suspicious in b, with at least as many keywords
AppFiredSubset(a, b) ==
    /\ \A r \in DOMAIN AppWeights : a.heuristics[r] => b.heuristics[r]
    /\ Cardinality(a.heuristics.found) <= Cardinality(b.heuristics.found)

ReportOk(r) ==
    /\ ~r.raised
    /\ r.score \in 0..100
    /\ r.final_verdict \in Verdicts

\* C7: for every input URL string, malformed ones included, analyze_url
\* returns an integer score in 0..100 with a final_verdict, and so does the
\* heuristics part of what scan_url returns.
C7_ScoreAlwaysReported ==
    /\ \A i \in DOMAIN reports.p : ReportOk(reports.p[i])
    /\ \A i \in DOMAIN reports.s :
           ~reports.s[i].raised /\ ReportOk([raised |-> FALSE] @@ reports.s[i].heuristics)

\* C8: the score is monotone in the set of triggered rules, in both engines:
\* when every rule URL A triggers is triggered by URL B, with at least as
\* many keyword matches, the score of B is at least the score of A.
C8_ScoreMonotone ==
    /\ (reports.p # <<>> /\ ~reports.p[1].raised /\ ~reports.p[2].raised
        /\ FiredSubset(reports.p[1], reports.p[2]))
       => reports.p[1].score <= reports.p[2].score
    /\ (reports.a # <<>> /\ ~reports.a[1].raised /\ ~reports.a[2].raised
        /\ AppFiredSubset(reports.a[1], reports.a[2]))
       => reports.a[1].score <= reports.a[2].score

\* a run where B triggers strictly more than A in both engines, with two
\* keyword matches against one, and scores strictly higher
C8_Witness ==
    /\ reports.a # <<>>
    /\ \A i \in 1..2 : ~reports.p[i].raised /\ ~reports.a[i].raised
    /\ FiredSubset(reports.p[1], reports.p[2])
    /\ Len(reports.p[1].reasons) >= 1
    /\ Len(reports.p[2].reasons) > Len(reports.p[1].reasons)
    /\ reports.p[2].score > reports.p[1].score
    /\ AppFiredSubset(reports.a[1], reports.a[2])
    /\ Cardinality(reports.a[1].heuristics.found) = 1
    /\ Cardinality(reports.a[2].heuristics.found) = 2
    /\ reports.a[2].heuristics.length /\ ~reports.a[1].heuristics.length
    /\ reports.a[2].score > reports.a[1].score

\* ------------------------------------------------------------------------
\* Properties of the threshold endpoint
\* ------------------------------------------------------------------------
\* C1: a threshold write with t outside [0,1] fails with the validation
\* error and leaves the stored threshold exactly as it was before the call,
\* neither clamped nor coerced, whatever reads and writes came before.
C1_OutOfRangeRejected ==
    [][(/\ resp'.op = "post_threshold"
        /\ resp'.request.kind = "num"
        /\ (resp'.request.t < 0 \/ resp'.request.t > One))
       => /\ resp'.status = 400
          /\ resp'.error = "invalid threshold"
          /\ resp'.threshold = <<>>
          /\ PHISHSCAN_THRESHOLD' = PHISHSCAN_THRESHOLD
          /\ lastSet' = lastSet]_vars

\* a write above 1 has just been rejected after an earlier write succeeded,
\* and the stored threshold is still the one written earlier
C1_Witness ==
    /\ resp.op = "post_threshold"
    /\ resp.request.kind = "num"
    /\ resp.request.t > One
    /\ resp.status = 400
    /\ lastSet # <<>>
    /\ PHISHSCAN_THRESHOLD = lastSet[1]
    /\ PHISHSCAN_THRESHOLD # InitialThreshold(env)

\* C2: a successful write of t in [0,1] returns t, and from then on the
\* stored threshold is t and every GET returns t until the next successful
\* write, whatever failed writes and scoring requests come in between.
C2_WriteThenRead ==
    /\ (resp.op = "post_threshold" /\ resp.status = 200)
       => /\ 0 <= resp.request.t /\ resp.request.t <= One
          /\ resp.threshold = <<resp.request.t>>
          /\ lastSet = <<resp.request.t>>
    /\ lastSet # <<>> => PHISHSCAN_THRESHOLD = lastSet[1]
    /\ (resp.op = "get_threshold" /\ lastSet # <<>>)
       => resp.status = 200 /\ resp.threshold = lastSet

\* a GET has just returned a written value that differs from the start-up one
C2_Witness ==
    /\ resp.op = "get_threshold"
    /\ lastSet # <<>>
    /\ resp.threshold = lastSet
    /\ lastSet[1] # InitialThreshold(env)
    /\ lastSet[1] # DEFAULT_THRESHOLD

\* ------------------------------------------------------------------------
\* Properties of the aggregation
\* ------------------------------------------------------------------------
\* the two-signal result of /predict
IsPredictResult(r) == r.op = "predict" /\ r.status = 200

\* the five-signal result of scan_url, as /scan returns it
IsScanResult(r) == r.op = "scan" /\ r.status = 200

\* the two-signal verdict is 'phishing' iff combined >= the threshold in force
PredictLabelByThreshold ==
    IsPredictResult(resp)
    => /\ resp.final_verdict \in Verdicts
       /\ resp.final_verdict = "phishing"
          <=> resp.combined_probability >= PHISHSCAN_THRESHOLD

\* C3: for every aggregation result, two-signal or five-signal, the label is
\* 'phishing' iff the combined score >= the threshold in force, equality
\* included on the phishing side, and the label is one of the two values.
C3_LabelByThreshold ==
    /\ PredictLabelByThreshold
    /\ IsScanResult(resp)
       => /\ resp.result.final_verdict \in Verdicts
          /\ resp.result.final_verdict = "phishing"
             <=> resp.result.final_risk >= PHISHSCAN_THRESHOLD

\* C4: when the five signals are each in [0,1], the combined score is in
\* [0,1] in the two-signal mode for any configured weights and in the
\* five-signal mode with its fixed coefficients.
C4_InRangeSignalsBounded ==
    (bundle.sig.ssl_risk \in 0..Unit /\ bundle.sig.ml_prob \in 0..Unit)
    => /\ IsPredictResult(resp) => resp.combined_probability \in 0..One
       /\ IsScanResult(resp)
          => /\ resp.result.final_risk \in 0..One
             /\ resp.result.combined_probability \in 0..One

\* in-range signals, weights of 1.5 each: the weighted sum exceeds 1 and the
\* two-signal result is exactly 1
C4_Witness ==
    /\ bundle.sig.ssl_risk \in 0..Unit /\ bundle.sig.ml_prob \in 0..Unit
    /\ IsPredictResult(resp)
    /\ resp.heuristic_score # <<>>
    /\ WeightMl(env) * resp.ml_probability
       + WeightH(env) * resp.heuristic_score_normalized[1] > One
    /\ resp.combined_probability = One

\* C5: for any signal values, those outside [0,1] included, the aggregation
\* does not fail and the combined score is in [0,1] in both modes.
C5_AlwaysBounded ==
    /\ resp.op = "predict" => (resp.status = 200 /\ resp.combined_probability \in 0..One)
    /\ resp.op = "scan"
       => /\ resp.status = 200
          /\ resp.result.final_risk \in 0..One
          /\ resp.result.combined_probability \in 0..One

\* C6: in two-signal mode the combined score is
\* clamp(w_ml * ml_probability + w_heuristic * score / 100, 0, 1), with the
\* defaults 0.8 and 0.2; a score of 100 with ml_probability 0 gives 0.2.
C6_TwoSignalFormula ==
    /\ DEFAULT_WEIGHT_ML = 80 /\ DEFAULT_WEIGHT_H = 20
    /\ TwoSignal(DEFAULT_WEIGHT_ML, DEFAULT_WEIGHT_H, 0, HNorm(100)) = 2000
    /\ (IsPredictResult(resp) /\ resp.heuristic_score # <<>>)
       => /\ resp.heuristic_score_normalized = resp.heuristic_score
          /\ resp.combined_probability
             = Clamp(WeightMl(env) * resp.ml_probability
                     + WeightH(env) * resp.heuristic_score[1], 0, One)

\* default weights, a heuristic score of 45 and a positive ML probability:
\* combined = 0.8 * ml_probability + 0.09, below 1
C6_Witness ==
    /\ IsPredictResult(resp)
    /\ env.w_ml = <<>> /\ env.w_h = <<>>
    /\ resp.heuristic_score = <<45>>
    /\ resp.ml_probability > 0
    /\ resp.combined_probability = 80 * resp.ml_probability + 900
    /\ resp.combined_probability < One

\* ------------------------------------------------------------------------
\* Properties of the canonicalizers
\* ------------------------------------------------------------------------
\* C9: each canonicalizer applied to its own output returns that output
\* unchanged, for every input string.
C9_Idempotent ==
    /\ canon.fu # <<>> => canon.fu[2] = canon.fu[1]
    /\ canon.st # <<>> => canon.st[2] = canon.st[1]
    /\ canon.ti # <<>> => canon.ti[2] = canon.ti[1]

\* ------------------------------------------------------------------------
\* Properties of the feed index
\* ------------------------------------------------------------------------
\* the canonical URLs of the primary and of the secondary download
PrimaryKeys ==
    {fu_normalize_url(EntryUrl(phishtank_entries[i])) :
        i \in {j \in DOMAIN phishtank_entries : EntryUrl(phishtank_entries[j]) # <<>>}}

SecondaryKeys == {fu_normalize_url(openphish_lines[i]) : i \in DOMAIN openphish_lines}

\* the built index holds exactly the canonical URLs of the two downloads; a
\* URL of the primary download maps to a PhishTank entry of that URL, and an
\* OpenPhish entry is there only for a URL absent from the primary download
MergePrimaryWins ==
    index # <<>>
    => /\ DOMAIN index[1] = PrimaryKeys \cup SecondaryKeys
       /\ \A k \in DOMAIN index[1] :
              IF k \in PrimaryKeys
              THEN /\ index[1][k].feed = "PhishTank"
                   /\ \E i \in DOMAIN phishtank_entries :
                          /\ index[1][k].entry = phishtank_entries[i]
                          /\ fu_normalize_url(EntryUrl(phishtank_entries[i])) = k
              ELSE /\ index[1][k].feed = "OpenPhish"
                   /\ \E i \in DOMAIN openphish_lines :
                          /\ index[1][k].entry.url = openphish_lines[i]
                          /\ fu_normalize_url(openphish_lines[i]) = k

\* C10: the merge is primary-wins, and the lookup of a URL whose canonical
\* form is in both sources returns the primary-source entry.
C10_PrimaryWins ==
    /\ MergePrimaryWins
    /\ (lookup.url # <<>>
        /\ fu_normalize_url(lookup.url[1]) \in PrimaryKeys \cap SecondaryKeys)
       => /\ ~lookup.raised
          /\ lookup.found
          /\ lookup.feed = "PhishTank"
          /\ fu_normalize_url(EntryUrl(lookup.entry[1]))
             = fu_normalize_url(lookup.url[1])

\* ------------------------------------------------------------------------
\* Properties of the feed update
\* ------------------------------------------------------------------------
\* the entries a source contributes: none when its reply cannot be used
UsableEntries(reply) ==
    IF reply.kind \in {"object", "list"} THEN reply.items ELSE <<>>

\* C11: the feed index build never raises: a source that is unreachable or
\* answers with unusable data contributes zero entries, and the index built
\* from what the other source returned is saved (empty when both fail).
C11_BuildNeverRaises ==
    main_status # "idle" =>
        /\ main_status = "done"
        /\ index_file = <<build_index(UsableEntries(replies.pt),
                                      download_openphish(replies.op).lines)>>

\* ------------------------------------------------------------------------
\* Properties of the feed cache
\* ------------------------------------------------------------------------
\* C12: the cache is stale exactly when now - built_at > ttl: a lookup
\* attempts a download if and only if, when it checked, the cache was
\* missing or strictly older than the TTL; at age 0 and at age = TTL it
\* goes straight to the cached feed.
C12_StaleIffOlderThanTtl ==
    \A t \in DOMAIN thread :
        thread[t].pc # "idle" =>
            ((thread[t].fetched \/ thread[t].pc \in {"get", "open", "write"})
             <=> (\/ thread[t].seen = <<>>
                  \/ thread[t].at - thread[t].seen[1].mtime > 24 * 3600))

\* one lookup answered without a download from a cache exactly one TTL old,
\* and another that downloaded because the cache was older
C12_Witness ==
    \E t, u \in DOMAIN thread :
        /\ thread[t].pc = "done" /\ ~thread[t].fetched
        /\ thread[t].seen # <<>>
        /\ thread[t].at - thread[t].seen[1].mtime = CACHE_TTL_SECONDS
        /\ thread[u].pc = "done" /\ thread[u].fetched
        /\ thread[u].seen # <<>>
        /\ thread[u].at - thread[u].seen[1].mtime > CACHE_TTL_SECONDS

\* the entries of a loaded feed whose normalized 'url' is that of url
OldMatches(loaded, url) ==
    IF loaded = <<>> \/ ti_normalize_url(url) = Raised THEN {}
    ELSE {i \in DOMAIN loaded[1] :
              /\ loaded[1][i].url # <<>>
              /\ ti_normalize_url(loaded[1][i].url) = ti_normalize_url(url)}

C14_ReadsCompleteFeed ==
    \A t \in DOMAIN thread :
        thread[t].pc = "done" =>
            (thread[t].read = <<>> \/ _load_phishtank_feed(thread[t].read) # <<>>)

\* ------------------------------------------------------------------------
\* Properties of the configuration under concurrent requests
\* ------------------------------------------------------------------------
\* C15: a request never uses a half-written configuration: the weight pair
\* and the threshold behind one verdict were in force together at one
\* instant, that of the verdict, whatever threshold writes came in between
\* the request's reads.
C15_ConsistentConfiguration ==
    [][(req.pc = "threshold" /\ req'.pc = "done") =>
          /\ req'.threshold = PHISHSCAN_THRESHOLD
          /\ req'.result.final_verdict =
                 Label(req'.result.combined_probability, PHISHSCAN_THRESHOLD)
          /\ req'.result.heuristic_score_normalized # <<>> =>
                 req'.result.combined_probability =
                     TwoSignal(WeightMl(env), WeightH(env), req.prob,
                               req'.result.heuristic_score_normalized[1])]_vars

\* a request between whose first read and verdict the threshold was written,
\* and which combined both signals
C15_Witness ==
    /\ req.pc = "done"
    /\ req.t0 # req.threshold
    /\ req.result.heuristic_score_normalized # <<>>
    /\ req.result.final_verdict = "phishing"

\* C16: after a successful threshold write t, every verdict computed
\* afterwards uses t as its cut, in both modes: the two-signal verdict of
\* /predict and the five-signal verdict of scan_url are 'phishing' iff the
\* combined score >= t.
C16_VerdictUsesSetThreshold ==
    lastSet # <<>> =>
        /\ IsPredictResult(resp)
           => (resp.final_verdict = "phishing"
               <=> resp.combined_probability >= lastSet[1])
        /\ IsScanResult(resp)
           => (resp.result.final_verdict = "phishing"
               <=> resp.result.final_risk >= lastSet[1])

\* the two-signal half of C16, which the code satisfies
PredictUsesSetThreshold ==
    (lastSet # <<>> /\ IsPredictResult(resp))
    => (resp.final_verdict = "phishing"
        <=> resp.combined_probability >= lastSet[1])

\* ------------------------------------------------------------------------
\* The two scenarios of the rule engines
\* ------------------------------------------------------------------------
\* the rules of app/heuristics.py that a report marks suspicious
AppFired(r) == {k \in DOMAIN AppWeights : r.heuristics[k]}

\* the app engine on "http://192.168.1.10/login?verify=true": the IP and
\* keyword rules only, both keywords, score >= 45, not safe
AppScenario ==
    (urlA = U_SCENARIO /\ reports.a # <<>>) =>
        /\ ~reports.a[1].raised
        /\ AppFired(reports.a[1]) = {"ip_in_domain", "keywords"}
        /\ reports.a[1].heuristics.found = {KW_LOGIN, KW_VERIFY}
        /\ reports.a[1].score >= 45
        /\ reports.a[1].final_verdict # "Likely Safe"

\* C17: evaluate("http://192.168.1.10/login?verify=true") triggers
\* ip_in_domain and suspicious_keyword and no other rule, scores at least
\* 45, and its verdict is on the suspicious/phishing side, in both engines.
C17_ScenarioIpLogin ==
    /\ AppScenario
    /\ (urlA = U_SCENARIO /\ reports.p # <<>>) =>
           /\ ~reports.p[1].raised
           /\ reports.p[1].reasons = <<"ip_in_domain", "suspicious_keyword">>
           /\ reports.p[1].score >= 45
           /\ reports.p[1].final_verdict = "phishing"

\* C18: evaluate("http://example.com") triggers no rule, scores 0 and is
\* safe/legitimate, in both engines.
C18_ScenarioExample ==
    /\ (urlA = U_EXAMPLE /\ reports.p # <<>>) =>
           /\ ~reports.p[1].raised
           /\ reports.p[1].reasons = <<>>
           /\ reports.p[1].score = 0
           /\ reports.p[1].final_verdict = "legitimate"
    /\ (urlA = U_EXAMPLE /\ reports.a # <<>>) =>
           /\ ~reports.a[1].raised
           /\ AppFired(reports.a[1]) = {}
           /\ reports.a[1].heuristics.found = {}
           /\ reports.a[1].score = 0
           /\ reports.a[1].final_verdict = "Likely Safe"

\* both engines have reported on "http://example.com"
C18_Witness ==
    /\ urlA = U_EXAMPLE
    /\ reports.a # <<>>
    /\ reports.p[1].score = 0 /\ reports.a[1].score = 0

\* ------------------------------------------------------------------------
\* Lookup against the built index
\* ------------------------------------------------------------------------
\* the lookup matches whole canonical strings only: what it finds is an
\* entry whose normalized 'url' equals the normalized URL looked up
LookupExactMatch ==
    lookup.found =>
        /\ lookup.entry[1].url # <<>>
        /\ ti_normalize_url(lookup.entry[1].url) = ti_normalize_url(lookup.url[1])

\* C19: lookup(url) returns an entry if and only if some key of the built
\* index, from the primary or the secondary source, is string-equal to the
\* canonical form of url: no prefix or path extension of an indexed URL is
\* found, and a URL only in the secondary source is found.
C19_LookupIffIndexed ==
    lookup.url # <<>> =>
        /\ ~lookup.raised
        /\ lookup.found
           <=> fu_normalize_url(lookup.url[1]) \in PrimaryKeys \cup SecondaryKeys

\* ------------------------------------------------------------------------
\* The score as a sum of contributions
\* ------------------------------------------------------------------------
\* what the keyword rule added to a score of phishscan/app/heuristics.py:
\* the score less the fixed weights of the other triggered rules
KeywordPart(r) ==
    r.score - SumWeights(SelectSeq(r.reasons,
                                   LAMBDA x : x # "suspicious_keyword"))

\* the same for app/heuristics.py
AppKeywordPart(r) ==
    r.score - (IF r.heuristics.length THEN AppWeights.length ELSE 0)
            - (IF r.heuristics.special_chars THEN AppWeights.special_chars ELSE 0)
            - (IF r.heuristics.ip_in_domain THEN AppWeights.ip_in_domain ELSE 0)
            - (IF r.heuristics.subdomain_depth THEN AppWeights.subdomain_depth ELSE 0)

\* the distinct keywords of phishscan/app/heuristics.py in a URL
KeywordsIn(url) == {k \in keywords : Contains(Lower(Strip(url)), k)}

\* the app engine: fixed weights, and a keyword part that is 0 without a
\* match, at most the rule's weight, and smaller for one match than for two
AppScoreIsSum ==
    (reports.a # <<>> /\ ~reports.a[1].raised /\ ~reports.a[2].raised) =>
        /\ \A i \in 1..2 :
               /\ AppKeywordPart(reports.a[i]) \in 0..AppWeights.keywords
               /\ AppKeywordPart(reports.a[i]) > 0
                  <=> reports.a[i].heuristics.found # {}
               /\ reports.a[i].heuristics.keywords
                  <=> reports.a[i].heuristics.found # {}
        /\ (Cardinality(reports.a[1].heuristics.found) = 1
            /\ Cardinality(reports.a[2].heuristics.found) >= 2)
           => AppKeywordPart(reports.a[1]) < AppKeywordPart(reports.a[2])

\* C20: the score is the clamped sum of the contributions of exactly the
\* triggered rules: a fixed weight for each triggered rule other than the
\* keyword rule, and for the keyword rule an amount that grows with the
\* number of distinct keywords matched up to the rule's weight, one match
\* contributing less than two or more; in both engines.
C20_ScoreIsSumOfContributions ==
    /\ AppScoreIsSum
    /\ (reports.p # <<>> /\ ~reports.p[1].raised /\ ~reports.p[2].raised) =>
           /\ \A i \in 1..2 :
                  /\ KeywordPart(reports.p[i]) \in 0..WEIGHT_SUSPICIOUS_KEYWORD
                  /\ KeywordPart(reports.p[i]) > 0
                     <=> "suspicious_keyword" \in Range(reports.p[i].reasons)
           /\ (Cardinality(KeywordsIn(urlA)) = 1
               /\ Cardinality(KeywordsIn(urlB)) >= 2)
              => KeywordPart(reports.p[1]) < KeywordPart(reports.p[2])

\* ------------------------------------------------------------------------
\* The rule tests
\* ------------------------------------------------------------------------
\* the host of a URL that has a scheme: its netloc without the credentials
\* and without the port
HostOf(url) ==
    LET NoPort(h) == BeforeFirst(h, ":")
        NoCred(n) == IF HasChar(n, "@") THEN AfterFirst(n, "@") ELSE n
    IN  NoPort(NoCred(urlparse(url).netloc))

\* the number of dot-separated labels of the host
HostLabels(url) == CountChar(HostOf(url), ".") + 1

\* the app engine marks subdomain_depth exactly for hosts of six labels or
\* more
AppManySubdomains ==
    \A i \in DOMAIN reports.a :
        ~reports.a[i].raised =>
            (reports.a[i].heuristics.subdomain_depth
             <=> HostLabels(<<urlA, urlB>>[i]) - 2 > 3)

\* C21: the many_subdomains rule triggers if and only if the number of
\* labels of the host minus 2 exceeds 3, so only from six labels on and not
\* for a dotted quad; in both engines.
C21_ManySubdomainsFromSixLabels ==
    /\ AppManySubdomains
    /\ \A i \in DOMAIN reports.p :
           ~reports.p[i].raised =>
               ("many_subdomains" \in Range(reports.p[i].reasons)
                <=> HostLabels(<<urlA, urlB>>[i]) - 2 > 3)

\* the host is four dot-separated decimal parts, each at most 255
IsDottedQuad(host) ==
    LET Octet(p) == IsDigits(p) /\ ToInt(p) \in 0..255
        Quad(parts) == Len(parts) = 4 /\ \A k \in 1..4 : Octet(parts[k])
    IN  Quad(Split(host, "."))

\* the app engine marks ip_in_domain exactly for dotted quads
AppIpInDomain ==
    \A i \in DOMAIN reports.a :
        ~reports.a[i].raised =>
            (reports.a[i].heuristics.ip_in_domain
             <=> IsDottedQuad(HostOf(<<urlA, urlB>>[i])))

\* C22: the ip_in_domain rule triggers if and only if the host, without
\* credentials and port, is four dot-separated decimal parts each in
\* [0,255]: not for 999.1.1.1, and for user@10.0.0.1:8080; in both engines.
C22_IpInDomainIsDottedQuad ==
    /\ AppIpInDomain
    /\ \A i \in DOMAIN reports.p :
           ~reports.p[i].raised =>
               ("ip_in_domain" \in Range(reports.p[i].reasons)
                <=> IsDottedQuad(HostOf(<<urlA, urlB>>[i])))

\* ------------------------------------------------------------------------
\* Fragment and trailing slash
\* ------------------------------------------------------------------------
\* an input the parsers accept, with its path in sight: no bracket, no
\* parameters, no query, no fragment, no blank at the end
PlainInput ==
    /\ canon.fu # <<>> /\ canon.ti # <<>> /\ rawUrl # <<>>
    /\ ~HasChar(rawUrl, "[") /\ ~HasChar(rawUrl, ";")
    /\ ~HasChar(rawUrl, "#") /\ ~HasChar(rawUrl, "?")
    /\ rawUrl[Len(rawUrl)] # " "

\* an input and the same input with the fragment "#a" canonicalize alike
FragmentDropped ==
    PlainInput =>
        /\ Again(fu_normalize_url(rawUrl \o <<"#", "a">>), <<>>)[1] = canon.fu[1]
        /\ Again(ti_normalize_url(rawUrl \o <<"#", "a">>), <<>>)[1] = canon.ti[1]

\* an input that ends in a letter, and the same input with one more "/",
\* canonicalize alike: the root path and the empty path are one
OneSlashStripped ==
    (PlainInput /\ rawUrl[Len(rawUrl)] \in {"a", "A"}) =>
        /\ Again(fu_normalize_url(rawUrl \o <<"/">>), <<>>)[1] = canon.fu[1]
        /\ Again(ti_normalize_url(rawUrl \o <<"/">>), <<>>)[1] = canon.ti[1]

\* the path of the input ends in "//" after a letter
EndsInTwoSlashes ==
    /\ PlainInput /\ Len(rawUrl) >= 3
    /\ rawUrl[Len(rawUrl) - 2] \in {"a", "A"}
    /\ Drop(rawUrl, Len(rawUrl) - 2) = <<"/", "/">>

\* both normalizers strip every trailing slash
AllSlashesStripped ==
    EndsInTwoSlashes =>
        /\ canon.fu[1][Len(canon.fu[1])] # "/"
        /\ canon.ti[1][Len(canon.ti[1])] # "/"

\* C23: canonicalization drops the fragment and strips a single trailing
\* slash, not every one: inputs that differ only in the fragment
\* canonicalize alike, 'http://h' and 'http://h/' too, and a path that ends
\* in '//' keeps one trailing slash.
C23_FragmentAndSingleSlash ==
    /\ FragmentDropped
    /\ OneSlashStripped
    /\ EndsInTwoSlashes =>
           /\ canon.fu[1][Len(canon.fu[1])] = "/"
           /\ canon.ti[1][Len(canon.ti[1])] = "/"

\* ------------------------------------------------------------------------
\* The engine's verdict and the runtime threshold
\* ------------------------------------------------------------------------
\* the app engine is on the suspicious/phishing side iff its score >= 30
AppVerdictByCut ==
    \A i \in 1..Len(reports.a) :
        ~reports.a[i].raised =>
            (reports.a[i].final_verdict # "Likely Safe"
             <=> reports.a[i].score >= 30)

\* C24: the engine's verdict is on the phishing side iff its score >= the
\* fixed cut 50, and the heuristic report of a URL is the same whatever the
\* runtime threshold is and however it was set: /scan reports the score the
\* engine gives the URL and the verdict of that score.
C24_VerdictByFixedCut ==
    /\ IsScanResult(resp) =>
        /\ resp.result.heuristics.final_verdict \in Verdicts
        /\ resp.result.heuristics.final_verdict = "phishing"
           <=> resp.result.heuristics.score >= 50
        /\ resp.result.heuristics.score = analyze_url(resp.url).score
        /\ resp.verdict = resp.result.heuristics.final_verdict
        /\ resp.score = resp.result.heuristics.score
    /\ IsPredictResult(resp) /\ resp.heuristic_score # <<>> =>
        resp.heuristic_score[1] = analyze_url(resp.url).score

\* a URL that scores under the cut is reported legitimate after the
\* threshold was set to 0
C24_Witness ==
    /\ lastSet = <<0>>
    /\ PHISHSCAN_THRESHOLD = 0
    /\ IsScanResult(resp)
    /\ resp.result.heuristics.score < 50
    /\ resp.result.heuristics.final_verdict = "legitimate"

\* over the URLs of the rule engine runs, which score on both sides of the
\* cut: the engine and the scanner report 'phishing' iff the score >= 50
EngineVerdictByCut ==
    /\ \A i \in 1..Len(reports.p) :
        ~reports.p[i].raised =>
            (reports.p[i].final_verdict = "phishing" <=> reports.p[i].score >= 50)
    /\ \A i \in 1..Len(reports.s) :
        ~reports.s[i].raised =>
            (reports.s[i].heuristics.final_verdict = "phishing"
             <=> reports.s[i].heuristics.score >= 50)

EngineVerdictBothSides ==
    /\ Len(reports.s) = 2
    /\ ~reports.s[1].raised /\ ~reports.s[2].raised
    /\ reports.s[1].heuristics.final_verdict = "phishing"
    /\ reports.s[2].heuristics.final_verdict = "legitimate"

\* ------------------------------------------------------------------------
\* The HTML signal
\* ------------------------------------------------------------------------
\* the forms of the page that have a password input
HasPassword(form) ==
    \E i \in 1..Len(form) : form[i] \in {T_PASSWORD, T_PASSWORD_UPPER}

\* the page is fetched and its body is within the size limit
FetchedInLimit ==
    /\ page.kind = "ok"
    /\ TextBytes(Document(page.forms)) + page.padding * CHUNK_BYTES <= MAX_BYTES

\* analyze_forms on a parsed page counts its forms and lists as login_forms
\* exactly those with a password input, in order
LoginFormsArePasswordForms ==
    html.forms # <<>> =>
        /\ html.forms[1].form_count = Len(page.forms)
        /\ Len(html.forms[1].login_forms)
           = Len(SelectSeq(page.forms, HasPassword))
        /\ \A i \in 1..Len(page.forms) :
               html.forms[1].forms[i].has_password <=> HasPassword(page.forms[i])
        /\ \A i \in 1..Len(html.forms[1].login_forms) :
               html.forms[1].login_forms[i].has_password

\* the fetch fails exactly when the site raised or the body is over the limit
FetchedIffInLimit ==
    html.fetch # <<>> => (html.fetch[1].fetched <=> FetchedInLimit)

\* C25: the HTML signal is 1 iff the scanned page has a login form: for a
\* page fetched within the size limit safe_fetch returns the body read,
\* scan_url_html lists the forms with a password input, and scan_url maps
\* a non-empty list to html_risk = 1.
C25_HtmlSignalIffLoginForm ==
    FetchedInLimit =>
        /\ html.fetch # <<>> =>
               /\ html.fetch[1].fetched
               /\ html.fetch[1].text = Document(page.forms)
        /\ html.result # <<>> =>
               /\ Len(html.result[1].login_forms)
                  = Len(SelectSeq(page.forms, HasPassword))
               /\ html.risk[1] = 1 <=> (\E i \in 1..Len(page.forms) :
                                            HasPassword(page.forms[i]))

\* ------------------------------------------------------------------------
\* The range of the configured threshold
\* ------------------------------------------------------------------------
\* a threshold that starts in [0,1] stays there
ThresholdStaysInRange ==
    InitialThreshold(env) \in 0..One => PHISHSCAN_THRESHOLD \in 0..One

\* C26: in every reachable state, the initial one with the threshold taken
\* from the environment included, the configured threshold is in [0,1].
C26_ThresholdInUnitInterval == PHISHSCAN_THRESHOLD \in 0..One

\* ------------------------------------------------------------------------
\* What changes the configured threshold
\* ------------------------------------------------------------------------
\* C27: the configured threshold changes only in a successful threshold
\* write, to the value written: /predict, /scan, /health, /history,
\* GET /config/threshold and a rejected POST leave it as it was.
C27_OnlyWriteChangesThreshold ==
    [][PHISHSCAN_THRESHOLD' # PHISHSCAN_THRESHOLD
       => /\ resp'.op = "post_threshold"
          /\ resp'.status = 200
          /\ PHISHSCAN_THRESHOLD' = resp'.request.t]_vars

\* a request other than a write was answered after a write that changed the
\* threshold, and the threshold is still the value written
C27_Witness ==
    /\ lastSet # <<>>
    /\ lastSet[1] # InitialThreshold(env)
    /\ PHISHSCAN_THRESHOLD = lastSet[1]
    /\ resp.op \in {"predict", "scan", "health", "history", "get_threshold"}

\* a rejected write was answered and the threshold is the initial one
C27_RejectedWrite ==
    /\ resp.op = "post_threshold" /\ resp.status = 400
    /\ lastSet = <<>>
    /\ PHISHSCAN_THRESHOLD = InitialThreshold(env)

\* ------------------------------------------------------------------------
\* Agreement of the three canonicalizers
\* ------------------------------------------------------------------------
\* feed_updater.normalize_url and api.normalize_for_storage agree on an
\* input without blanks wherever the second returns
FeedAndStorageAgree ==
    (canon.fu # <<>> /\ canon.st # <<>> /\ canon.st[1] # Raised
     /\ ~HasChar(rawUrl, " "))
    => canon.fu[1] = canon.st[1]

\* C28: for every input the three canonicalizers return the same string:
\* feed_updater.normalize_url, api.normalize_for_storage and
\* threat_intel.normalize_url.
C28_CanonicalizersAgree ==
    (canon.fu # <<>> /\ canon.st # <<>> /\ canon.ti # <<>>)
    => /\ canon.st[1] # Raised /\ canon.ti[1] # Raised
       /\ canon.fu[1] = canon.st[1]
       /\ canon.fu[1] = canon.ti[1]

\* ------------------------------------------------------------------------
\* Scale normalization of genuine scores
\* ------------------------------------------------------------------------
\* C29: for every score s the rule engine produces, scan_url's rescaling
\* leaves heuristics.score = s, and /predict's normalization of it is s/100
\* (s hundredths).
C29_RescalingKeepsScore ==
    \A i \in 1..Len(reports.s) :
        (i <= Len(reports.p) /\ ~reports.p[i].raised /\ ~reports.s[i].raised) =>
            /\ reports.s[i].heuristics.score = reports.p[i].score
            /\ HNorm(reports.s[i].heuristics.score) * 100 = reports.p[i].score * Unit

\* both URLs are scanned, one scoring the least a rule gives and one the
\* most the rules give together
C29_Witness ==
    /\ Len(reports.s) = 2 /\ Len(reports.p) = 2
    /\ \E i \in 1..2 :
           ~reports.s[i].raised /\ reports.s[i].heuristics.score = 10
    /\ \E i \in 1..2 :
           ~reports.s[i].raised /\ reports.s[i].heuristics.score = 70

\* ------------------------------------------------------------------------
\* Concurrent rebuilds of the feed cache
\* ------------------------------------------------------------------------
\* every lookup has finished, and each downloaded a feed and wrote it
AllRebuilt ==
    /\ thread # <<>>
    /\ \A t \in DOMAIN thread :
           thread[t].pc = "done" /\ thread[t].fetched /\ ~thread[t].failed

\* C30: when the lookups each found the cache missing or stale and each
\* rebuilt it, then, whatever the interleaving of their steps, once all
\* have finished the cache holds exactly one complete downloaded snapshot,
\* written after every one of them began.
C30_ConcurrentRebuildsLeaveOneSnapshot ==
    AllRebuilt =>
        /\ cache_file # <<>>
        /\ cache_file[1].text \in {Append(s, EOT) : s \in Snapshots}
        /\ \A t \in DOMAIN thread : cache_file[1].mtime >= thread[t].at

\* the cache the rebuilds leave is never older than the lookups
RebuiltCacheIsFresh ==
    AllRebuilt =>
        /\ cache_file # <<>>
        /\ \A t \in DOMAIN thread : cache_file[1].mtime >= thread[t].at

====
